---------------------------- MODULE Spec2Model ----------------------------
(***************************************************************************)
(* State-machine model of the AI PR Comment Fixer Bot:                     *)
(*   - the webhook endpoint (signature check, dispatch, acknowledgment),   *)
(*   - CommentProcessor.processComment (skip checks, analysis, apply),     *)
(*   - OpenAIService.analyzeComment / parseAIResponse,                     *)
(*   - GitService (setupRepository .. pushChanges) on a reused working     *)
(*     copy, and GitHubService.createComment.                              *)
(* One delivery is one HTTP POST to /webhook.  Every `await` of the code   *)
(* is a point where another pipeline may run; the code between two awaits  *)
(* is one atomic action.  Every external call (GitHub API, model API, git, *)
(* file system) may succeed or fail.                                       *)
(***************************************************************************)
EXTENDS Integers, Sequences, FiniteSets, TLC

\* Number of webhook deliveries in one behaviour.
MaxDeliveries == 2
\* Largest value of Date.now() (epoch milliseconds, positive).
MaxClock == 2

Deliveries == 1..MaxDeliveries

---------------------------------------------------------------------------
(* Identities and configuration *)

\* The literal login processComment compares the comment author with.
BotLogin == "AI Comment Fixer Bot"
\* Logins a comment author or the configured GIT_USER_NAME can have.
Logins == {"fix-bot", BotLogin}
\* process.env.GIT_USER_NAME as validateConfig reads it.
ConfigUserNames == Logins

\* The two GitHubService classes of the sources: verifyWebhookSignature
\* with hex decoding inside try/catch, and the one comparing the prefixed
\* strings with no try/catch.  A build holds one of them.
Builds == {"hexTryCatch", "prefixedThrowing"}

---------------------------------------------------------------------------
(* Signature verification *)

HexDigits == {"a", "b", "1", "2", "A"}

Lower(c) == IF c = "A" THEN "a" ELSE c

\* Buffer.from(s, 'hex'): decodes pairs of hex digits, case-insensitively,
\* and stops at the first pair that is not hexadecimal.
RECURSIVE BufferFromHex(_)
BufferFromHex(s) ==
  IF Len(s) < 2 \/ s[1] \notin HexDigits \/ s[2] \notin HexDigits
  THEN <<>>
  ELSE << <<Lower(s[1]), Lower(s[2])>> >> \o BufferFromHex(SubSeq(s, 3, Len(s)))

\* crypto.timingSafeEqual: throws when the byte lengths differ.
timingSafeEqual(a, b) ==
  IF Len(a) # Len(b) THEN "throw"
  ELSE IF a = b THEN "true" ELSE "false"

\* HMAC-SHA256 of a request body under the webhook secret, hex encoded
\* (a one-byte digest stands for the 32-byte one; the digest is a function
\* of the body, and the two values of the action field give two digests).
Hmac(body) ==
  IF body.action = "created" THEN <<"a", "1">> ELSE <<"b", "2">>

\* Buffer.from(str): the bytes of the header string itself; the prefix
\* "sha256=" counts as one unit, each further character as one.
BufferFromString(sig) ==
  (IF sig.prefix THEN <<"sha256=">> ELSE <<>>) \o sig.hex

verifyHexTryCatch(body, sig) ==
  LET expectedSignature == Hmac(body)
      signatureHex == sig.hex   \* prefix 'sha256=' removed if present
      cmp == timingSafeEqual(BufferFromHex(signatureHex),
                             BufferFromHex(expectedSignature))
  IN IF cmp = "throw" THEN "false" ELSE cmp

verifyPrefixedThrowing(body, sig) ==
  LET expectedSignature == [prefix |-> TRUE, hex |-> Hmac(body)]
  IN timingSafeEqual(BufferFromString(sig), BufferFromString(expectedSignature))

\* GitHubService.verifyWebhookSignature of build b: "true", "false" or "throw".
verifyWebhookSignature(b, body, sig) ==
  IF b = "hexTryCatch" THEN verifyHexTryCatch(body, sig)
  ELSE verifyPrefixedThrowing(body, sig)

---------------------------------------------------------------------------
(* Requests *)

CommentEvents == {"pull_request_review_comment", "issue_comment"}

PRNumbers == {1, 2}

\* payload.repository: owner login and name, as character sequences.  The
\* webhook of two repositories can point at the server.
HomeRepo == [owner |-> <<"o">>, name |-> <<"r">>]
OtherRepo == [owner |-> <<"o">>, name |-> <<"s">>]
Repos == {HomeRepo, OtherRepo}

\* The JSON body of a comment event of the first repository:
\* payload.action, payload.comment (with comment.user.login),
\* payload.pull_request (with number).
\* A body without payload.comment has no author, one without
\* payload.pull_request no number.
NoLogin == ""
CommentBodies ==
  { b \in [action : {"created", "edited"}, hasComment : BOOLEAN, hasPR : BOOLEAN,
           author : Logins \cup {NoLogin}, number : PRNumbers \cup {0},
           repo : {HomeRepo}] :
      /\ b.hasComment <=> b.author # NoLogin
      /\ b.hasPR <=> b.number # 0 }

\* The body of a delivery that is no comment event (ping).
OtherBody ==
  [action |-> "none", hasComment |-> FALSE, hasPR |-> FALSE,
   author |-> NoLogin, number |-> 0,
   repo |-> [owner |-> <<"o">>, name |-> <<"r">>]]

\* A created comment by a user on PR 1.
UserCommentBody ==
  [action |-> "created", hasComment |-> TRUE, hasPR |-> TRUE,
   author |-> "fix-bot", number |-> 1,
   repo |-> [owner |-> <<"o">>, name |-> <<"r">>]]

\* A digest that is not the body's.
WrongDigest(body) == IF Hmac(body) = <<"a", "1">> THEN <<"b", "2">> ELSE <<"a", "1">>

\* The x-hub-signature-256 header values a delivery of `body` can carry:
\* absent, the right digest with and without the prefix, a wrong digest of
\* the right length, and digests of another length.
SignaturesOf(body) ==
  { [present |-> FALSE, prefix |-> FALSE, hex |-> <<>>],
    [present |-> TRUE, prefix |-> TRUE, hex |-> Hmac(body)],
    [present |-> TRUE, prefix |-> FALSE, hex |-> Hmac(body)],
    [present |-> TRUE, prefix |-> TRUE, hex |-> WrongDigest(body)],
    [present |-> TRUE, prefix |-> TRUE, hex |-> <<"a">>],
    [present |-> TRUE, prefix |-> TRUE, hex |-> Hmac(body) \o <<"a", "1">>] }

NoSignature == [present |-> FALSE, prefix |-> FALSE, hex |-> <<>>]
\* The header GitHub computes: "sha256=" and the digest of the body.
GitHubSignature(body) == [present |-> TRUE, prefix |-> TRUE, hex |-> Hmac(body)]

\* No request in the handler: none delivered yet, or the request object
\* already released.
NoRequest ==
  [id |-> 0, event |-> "none", hasRawBody |-> FALSE,
   signature |-> NoSignature, body |-> OtherBody]

\* The request of delivery d.
Request(d, e, rb, s, b) ==
  [id |-> d, event |-> e, hasRawBody |-> rb, signature |-> s, body |-> b]

\* An event kind the switch of the handler does not name.
UnrecognizedEvent == "pull_request_review"

\* The requests delivery d can be: a delivery GitHub signed (a comment event
\* with any body, a ping, an event of another kind whose body names a
\* created comment on a PR), or a created comment with any of the header
\* values, with and without the captured raw body.
Requests(d) ==
  {Request(d, e, TRUE, GitHubSignature(b), b) :
      e \in CommentEvents, b \in CommentBodies}
  \cup {Request(d, "ping", TRUE, GitHubSignature(OtherBody), OtherBody)}
  \cup {Request(d, UnrecognizedEvent, TRUE, GitHubSignature(UserCommentBody),
                UserCommentBody)}
  \cup {Request(d, "issue_comment", rb, s, UserCommentBody) :
          rb \in BOOLEAN, s \in SignaturesOf(UserCommentBody)}

---------------------------------------------------------------------------
(* The webhook endpoint *)

\* app.post('/webhook'), lines 38-47 and 64-68: the status the handler
\* answers.  A throw of verifyWebhookSignature lands in the catch (500).
WebhookStatus(b, r) ==
  IF ~r.signature.present \/ ~r.hasRawBody THEN 401
  ELSE LET v == verifyWebhookSignature(b, r.body, r.signature)
       IN IF v = "throw" THEN 500
          ELSE IF v = "false" THEN 401 ELSE 200

\* handleCommentEvent without its check of payload.action.
handleCommentEventAnyAction(body) == body.hasPR

\* handleCommentEvent: TRUE when it reaches setImmediate(processComment).
handleCommentEvent(body) ==
  IF body.action # "created" THEN FALSE
  ELSE IF ~body.hasPR THEN FALSE
  ELSE TRUE

\* The dispatch without the switch on the event kind.
WebhookSchedulesAnyEvent(b, r) ==
  /\ WebhookStatus(b, r) = 200
  /\ handleCommentEvent(r.body)

\* The switch on the event kind: whether the delivery schedules a pipeline.
WebhookSchedules(b, r) ==
  /\ WebhookStatus(b, r) = 200
  /\ r.event \in CommentEvents
  /\ handleCommentEvent(r.body)

---------------------------------------------------------------------------
(* JSON values of a model reply *)

\* A JSON value as `typeof` and Array.isArray see it.  Numbers are held in
\* hundredths (confidence 0.5 is 50), so [0,1] is 0..100.
Undefined == [t |-> "undefined", s |-> "", n |-> 0]
Null == [t |-> "null", s |-> "", n |-> 0]
Bool(b) == [t |-> "boolean", s |-> IF b THEN "true" ELSE "false", n |-> 0]
Num(n) == [t |-> "number", s |-> "", n |-> n]
Str(s) == [t |-> "string", s |-> s, n |-> 0]

Files == {"a.ts", "b.ts"}
\* File contents; "absent" is a file that does not exist.
Contents == {"v0", "v1"}

\* An element of the reply's "changes" array: an object with the fields
\* below, or null, or a primitive (kind "string").
Entry(fn, c, desc, ln) ==
  [kind |-> "object", filename |-> fn, content |-> c, description |-> desc,
   lineNumber |-> ln]
NullEntry ==
  [kind |-> "null", filename |-> Undefined, content |-> Undefined,
   description |-> Undefined, lineNumber |-> Undefined]
StringEntry ==
  [kind |-> "string", filename |-> Undefined, content |-> Undefined,
   description |-> Undefined, lineNumber |-> Undefined]

GoodEntry(f, c) == Entry(Str(f), Str(c), Str("fix"), Undefined)

\* The reply's "changes" member: an array of entries, or something else.
Arr(items) == [t |-> "array", items |-> items]
NotArr(t) == [t |-> t, items |-> <<>>]

ReplyObject(sa, conf, reason, ch) ==
  [shouldApply |-> sa, confidence |-> conf, reasoning |-> reason, changes |-> ch]

EmptyObject == ReplyObject(Undefined, Undefined, Undefined, NotArr("undefined"))

\* The raw reply text, as the pieces the regular expression and JSON.parse
\* tell apart: prose without braces ("text"), prose holding only "{" or
\* only "}" ("open", "close"), a serialized JSON object ("json"), and a
\* brace-delimited piece that is no JSON ("badjson").
Seg(k) == [k |-> k, o |-> EmptyObject]
Json(o) == [k |-> "json", o |-> o]

HasOpen(seg) == seg.k \in {"open", "json", "badjson"}
HasClose(seg) == seg.k \in {"close", "json", "badjson"}

\* response.match(/\{[\s\S]*\}/): greedy, from the first "{" to the last
\* "}" of the text.  <<i, j>> are the pieces the match starts and ends in,
\* <<0, 0>> when there is no match.
JsonMatch(response) ==
  LET opens == {i \in 1..Len(response) : HasOpen(response[i])}
      first == IF opens = {} THEN 0
               ELSE CHOOSE i \in opens : \A k \in opens : i <= k
      closes == {j \in 1..Len(response) :
                   first # 0 /\ j >= first /\ HasClose(response[j])}
      last == IF closes = {} THEN 0
              ELSE CHOOSE j \in closes : \A k \in closes : j >= k
  IN IF first = 0 \/ last = 0 THEN <<0, 0>> ELSE <<first, last>>

\* AIAnalysisResult.  reasoning is [src, msg]: the reply's own text
\* (src "reply"), `Failed to parse AI response: msg` (src "parse") or
\* `Error analyzing comment: msg` (src "api").
Verdict(sa, ch, src, msg, conf) ==
  [shouldApply |-> sa, changes |-> ch,
   reasoning |-> [src |-> src, msg |-> msg], confidence |-> conf]

\* An error analyzeComment throws to its caller instead of returning.
Raised(msg) == Verdict(FALSE, <<>>, "raised", msg, 0)

\* The catch block of parseAIResponse, lines 162-172.
ParseFailure(msg) == Verdict(FALSE, <<>>, "parse", msg, 0)

\* The map callback without its check of the description.
EntryErrorNoDescription(e) ==
  IF e.kind = "null" THEN "TypeError"
  ELSE IF e.filename.t # "string" THEN "Invalid filename in change"
  ELSE IF e.content.t # "string" THEN "Invalid content in change"
  ELSE ""

\* The error an element of the changes array raises in the map callback,
\* "" when it is valid (lines 137-147).
EntryError(e) ==
  IF e.kind = "null" THEN "TypeError"
  ELSE IF e.filename.t # "string" THEN "Invalid filename in change"
  ELSE IF e.content.t # "string" THEN "Invalid content in change"
  ELSE IF e.description.t # "string" THEN "Invalid description in change"
  ELSE ""

\* The CodeChange built from a valid element (lines 148-153).
CodeChange(e) ==
  [filename |-> e.filename.s, content |-> e.content.s,
   description |-> e.description.s, lineNumber |-> e.lineNumber]

\* The validation without the range check of confidence.
ValidateParsedAnyConfidence(parsed) ==
  IF parsed.shouldApply.t # "boolean" THEN ParseFailure("Invalid shouldApply field")
  ELSE IF parsed.confidence.t # "number" THEN ParseFailure("Invalid confidence field")
  ELSE IF parsed.reasoning.t # "string" THEN ParseFailure("Invalid reasoning field")
  ELSE IF parsed.changes.t # "array" THEN ParseFailure("Invalid changes field")
  ELSE LET items == parsed.changes.items
           bad == {i \in 1..Len(items) : EntryError(items[i]) # ""}
       IN IF bad # {}
          THEN ParseFailure(EntryError(items[CHOOSE i \in bad : \A k \in bad : i <= k]))
          ELSE Verdict(parsed.shouldApply.s = "true",
                       [i \in 1..Len(items) |-> CodeChange(items[i])],
                       "reply", parsed.reasoning.s, parsed.confidence.n)

\* The validation of a parsed object, lines 119-161.
ValidateParsed(parsed) ==
  IF parsed.shouldApply.t # "boolean" THEN ParseFailure("Invalid shouldApply field")
  ELSE IF \/ parsed.confidence.t # "number"
          \/ parsed.confidence.n < 0
          \/ parsed.confidence.n > 100
       THEN ParseFailure("Invalid confidence field")
  ELSE IF parsed.reasoning.t # "string" THEN ParseFailure("Invalid reasoning field")
  ELSE IF parsed.changes.t # "array" THEN ParseFailure("Invalid changes field")
  ELSE LET items == parsed.changes.items
           bad == {i \in 1..Len(items) : EntryError(items[i]) # ""}
       IN IF bad # {}
          THEN ParseFailure(EntryError(items[CHOOSE i \in bad : \A k \in bad : i <= k]))
          ELSE Verdict(parsed.shouldApply.s = "true",
                       [i \in 1..Len(items) |-> CodeChange(items[i])],
                       "reply", parsed.reasoning.s, parsed.confidence.n)

\* OpenAIService.parseAIResponse.
parseAIResponse(response) ==
  LET m == JsonMatch(response)
  IN IF m = <<0, 0>> THEN ParseFailure("No JSON found in response")
     ELSE IF m[1] # m[2] \/ response[m[1]].k # "json"
          THEN ParseFailure("SyntaxError")   \* JSON.parse throws
          ELSE ValidateParsed(response[m[1]].o)

\* What the chat-completion call can produce: a thrown error, a reply with
\* no content, or a reply text.
ApiThrow == [kind |-> "throw", text |-> <<>>]
ApiEmpty == [kind |-> "empty", text |-> <<>>]
ApiReply(text) == [kind |-> "reply", text |-> text]

\* analyzeComment without its catch block: the errors reach the caller.
openaiAnalyzeCommentNoCatch(out) ==
  IF out.kind = "throw" THEN Raised("API error")
  ELSE IF out.kind = "empty" THEN Raised("No response from OpenAI")
  ELSE parseAIResponse(out.text)

\* OpenAIService.analyzeComment, lines 26-51, given the call's outcome.
openaiAnalyzeComment(out) ==
  IF out.kind = "throw" THEN Verdict(FALSE, <<>>, "api", "API error", 0)
  ELSE IF out.kind = "empty" THEN Verdict(FALSE, <<>>, "api", "No response from OpenAI", 0)
  ELSE parseAIResponse(out.text)

---------------------------------------------------------------------------
(* Branches, trees, commits, working copies *)

\* Branch names: a base branch by its ref, and
\* `fix/pr-${prNumber}-${Date.now()}` by its two numbers.
Base(ref) == [kind |-> "base", ref |-> ref, pr |-> 0, ts |-> 0]
FixBranchName(prNumber, ts) == [kind |-> "fix", ref |-> "fix", pr |-> prNumber, ts |-> ts]
NoBranch == [kind |-> "none", ref |-> "", pr |-> 0, ts |-> 0]
\* The repository's default branch, and a second branch PRs can target.
MainBranch == Base("main")
DevBranch == Base("develop")
\* pull_request.base.ref of the PRs: PR 1 targets main, PR 2 develop.
BaseOf(payload) == IF payload.number = 1 THEN MainBranch ELSE DevBranch

\* The trees of the two base branches on the remote.
BaseTree == [f \in Files |-> IF f = "a.ts" THEN "v0" ELSE "absent"]
DevTree == [f \in Files |-> "v0"]

\* A commit: its tree and the delivery whose commitChanges created it
\* (0: a commit of the remote's history).
Commit(tree, by) == [tree |-> tree, by |-> by]
BaseCommit == Commit(BaseTree, 0)
DevCommit == Commit(DevTree, 0)
\* The branches of the origin repository before any push.
RemoteInit == [b \in {MainBranch, DevBranch} |->
                 IF b = MainBranch THEN BaseCommit ELSE DevCommit]

\* path.join(tempDir, `${owner}-${name}`), line 115.
RepoPath(repo) == repo.owner \o <<"-">> \o repo.name
RepoPaths == {RepoPath(r) : r \in Repos}
NoPath == <<>>

\* A working-copy directory: whether it exists, the checked-out branch,
\* the local branches with their tip commits, the files on disk and the
\* index.
NoWorkingCopy ==
  [exists |-> FALSE, head |-> MainBranch, branches |-> [b \in {} |-> BaseCommit],
   upstream |-> {}, work |-> BaseTree, index |-> BaseTree]

Tip(w) == w.branches[w.head]

\* git clone: the default branch checked out at the remote's tip, tracking
\* the remote's branch.
GitClone(w, remoteBranches) ==
  [exists |-> TRUE, head |-> MainBranch,
   branches |-> [b \in {MainBranch} |-> remoteBranches[MainBranch]],
   upstream |-> {MainBranch},
   work |-> remoteBranches[MainBranch].tree,
   index |-> remoteBranches[MainBranch].tree]

\* The commit git checkout <branch> switches to: the local branch's tip,
\* or, for a branch that exists only on the remote, the remote's tip (a
\* local branch tracking it is created).
CheckoutTarget(w, remoteBranches, b) ==
  IF b \in DOMAIN w.branches THEN w.branches[b] ELSE remoteBranches[b]

\* git checkout <branch> can succeed: the branch exists and no locally
\* changed file differs between the two tips.
CanCheckout(w, remoteBranches, b) ==
  /\ w.exists
  /\ b \in DOMAIN w.branches \cup DOMAIN remoteBranches
  /\ \A f \in Files :
       (w.work[f] # Tip(w).tree[f] \/ w.index[f] # Tip(w).tree[f])
          => CheckoutTarget(w, remoteBranches, b).tree[f] = Tip(w).tree[f]

\* git checkout <branch>: unchanged files take the branch's content, local
\* changes are carried over.
GitCheckout(w, remoteBranches, b) ==
  LET target == CheckoutTarget(w, remoteBranches, b)
  IN [w EXCEPT !.head = b,
               !.branches = [x \in DOMAIN w.branches \cup {b} |->
                               IF x = b THEN target ELSE w.branches[x]],
               !.upstream = IF b \in DOMAIN w.branches THEN @ ELSE @ \cup {b},
               !.work = [f \in Files |-> IF w.work[f] # Tip(w).tree[f]
                                         THEN w.work[f] ELSE target.tree[f]],
               !.index = [f \in Files |-> IF w.index[f] # Tip(w).tree[f]
                                          THEN w.index[f] ELSE target.tree[f]]]

\* git pull (no arguments) can succeed: the current branch tracks a branch
\* of the remote.  The tracked branches are base branches, which nothing
\* pushes to: a pull finds them up to date and changes nothing.
CanPull(w) == w.exists /\ w.head \in w.upstream

\* git checkout -b <name> can succeed: no branch of that name exists.
CanCheckoutLocalBranch(w, b) == w.exists /\ b \notin DOMAIN w.branches

\* git checkout -b <name>: a new branch at the current commit.
GitCheckoutLocalBranch(w, b) ==
  [w EXCEPT !.head = b,
            !.branches = [x \in DOMAIN w.branches \cup {b} |->
                            IF x = b THEN Tip(w) ELSE w.branches[x]]]

\* fs.writeFileSync for the first n entries of the change list, in order.
RECURSIVE FsWrite(_, _, _)
FsWrite(w, changes, n) ==
  IF n = 0 THEN w
  ELSE LET prev == FsWrite(w, changes, n - 1)
       IN [prev EXCEPT !.work[changes[n].filename] = changes[n].content]

\* git add <files>.
GitAdd(w, files) ==
  [w EXCEPT !.index = [f \in Files |-> IF f \in files THEN w.work[f] ELSE w.index[f]]]

\* git status: StatusResult.modified and StatusResult.created.
StatusModified(w) ==
  {f \in Files : Tip(w).tree[f] # "absent"
                 /\ (w.index[f] # Tip(w).tree[f] \/ w.work[f] # w.index[f])}
StatusCreated(w) ==
  {f \in Files : Tip(w).tree[f] = "absent" /\ w.index[f] # "absent"}

\* git commit: the index becomes the tip of the checked-out branch.
GitCommit(w, d) ==
  IF w.index = Tip(w).tree THEN w
  ELSE [w EXCEPT !.branches[w.head] = Commit(w.index, d)]

\* git push origin <branch> can succeed: the branch exists locally.
CanPush(w, b) == w.exists /\ b \in DOMAIN w.branches

\* git push origin <branch>: the remote branch takes the local tip.
GitPush(w, remoteBranches, b) ==
  [x \in DOMAIN remoteBranches \cup {b} |->
     IF x = b THEN w.branches[b] ELSE remoteBranches[x]]

---------------------------------------------------------------------------
(* State *)

VARIABLES
  config,      \* the validated configuration: [userName]
  build,       \* which GitHubService the build holds
  now,         \* the last value Date.now() returned
  req,         \* the request the handler received last, until it is released
  res,         \* res[d]: the HTTP status answered to delivery d (0: none yet)
  p,           \* p[d]: the pipeline of delivery d (its locals and its effects)
  gitService,  \* CommentProcessor.gitService: the repoPath of the last GitService
  wc,          \* wc[path]: the working copy under temp-repos
  remote,      \* remote[repo]: the branches of the origin repository
  aiResponse,  \* analyzeComment on its own: the outcome of its model call
  aiResult,    \* analyzeComment on its own: what it returned
  verifyInput, \* verifyWebhookSignature on its own: payload and signature
  verifyResult,\* verifyWebhookSignature on its own: what it returned
  branchInput, \* createFixBranch on its own: arguments, clock, local branches
  branchResult,\* createFixBranch on its own: what it returned
  applyInput,  \* GitService.applyChanges on its own: the disk and the changes
  applyResult, \* GitService.applyChanges on its own: the disk it left
  commitInput, \* commitChanges on its own: the working copy and the changes
  commitResult \* commitChanges on its own: the working copy it left

vars == <<config, build, now, req, res, p, gitService, wc, remote,
          aiResponse, aiResult, verifyInput, verifyResult,
          branchInput, branchResult, applyInput, applyResult,
          commitInput, commitResult>>
\* The variables of the functions that are also checked on their own.
ai == <<aiResponse, aiResult, verifyInput, verifyResult,
        branchInput, branchResult, applyInput, applyResult,
        commitInput, commitResult>>

NoVerdict == Verdict(FALSE, <<>>, "none", "", 0)
NoError == [class |-> "none", msg |-> ""]
Err(class, msg) == [class |-> class, msg |-> msg]

\* The pipeline of a delivery: the control point (the await it is suspended
\* at), the payload its closure holds, the locals of analyzeComment and
\* applyChanges, and what it has done so far: model calls issued, git and
\* file-system calls completed, createComment calls issued and accepted.
NoPipeline ==
  [pc |-> "idle", payload |-> OtherBody,
   files |-> <<>>, contents |-> <<>>, analyzeCalls |-> 0, analysis |-> NoVerdict,
   self |-> NoPath, branchName |-> NoBranch, fixBranch |-> NoBranch,
   modelOutcome |-> "none",
   gitLog |-> <<>>, calls |-> <<>>, posted |-> <<>>, error |-> NoError]

\* The server after start-up: no delivery received, no working copy.
InitServer ==
  /\ config \in [userName : ConfigUserNames]
  /\ build \in Builds
  /\ now = 1
  /\ req = NoRequest
  /\ res = [d \in Deliveries |-> 0]
  /\ p = [d \in Deliveries |-> NoPipeline]
  /\ gitService = NoPath
  /\ wc = [path \in RepoPaths |-> NoWorkingCopy]
  /\ remote = [r \in Repos |-> RemoteInit]

\* No call of createFixBranch on its own.
NoBranchInput == [baseBranch |-> <<>>, prNumber |-> 0, clock |-> 0, local |-> {}]

\* No call of verifyWebhookSignature on its own.
NoVerifyInput == [payload |-> OtherBody, signature |-> NoSignature]

\* No call of GitService.applyChanges or commitChanges on its own, and no
\* result of such a call yet.
NoApplyInput == [disk |-> <<>>, changes |-> <<>>]
NoCommitInput == [earlier |-> <<>>, staged |-> FALSE, changes |-> <<>>]
NoResult == [ok |-> FALSE, returned |-> FALSE]

Init ==
  /\ InitServer
  /\ aiResponse = ApiEmpty
  /\ aiResult = NoVerdict
  /\ verifyInput = NoVerifyInput
  /\ verifyResult = "none"
  /\ branchInput = NoBranchInput
  /\ branchResult = <<>>
  /\ applyInput = NoApplyInput
  /\ applyResult = NoResult
  /\ commitInput = NoCommitInput
  /\ commitResult = NoResult

---------------------------------------------------------------------------
(* Comments *)

\* The body of a createComment call, by the fields its template embeds.
CommentBody(kind, v, branch, summary, err) ==
  [kind |-> kind, decision |-> v.shouldApply, reasoning |-> v.reasoning,
   confidence |-> v.confidence,
   changes |-> [i \in 1..Len(v.changes) |-> v.changes[i].filename],
   branch |-> branch, summary |-> summary,
   errClass |-> err.class, errMsg |-> err.msg]

\* addAnalysisComment, lines 163-174.
AnalysisComment(v) == CommentBody("analysis", v, NoBranch, "", NoError)
\* addSuccessComment, lines 196-212.
SuccessComment(v, branch, summary) == CommentBody("success", v, branch, summary, NoError)
\* handleError, lines 230-243: error.message and error.constructor.name.
ErrorComment(err) == CommentBody("error", NoVerdict, NoBranch, "", err)

\* handleError posting its comment without the error's class and message.
handleErrorUnknown(rec, err) ==
  [rec EXCEPT !.pc = "errorComment", !.error = err,
              !.calls = Append(@, ErrorComment(Err("Unknown", "Unknown error")))]

\* handleError returning without a createComment call.
handleErrorSilent(rec, err) == [rec EXCEPT !.pc = "done", !.error = err]

\* handleError, lines 225-251: the error comment is issued (payload.comment
\* and payload.pull_request are present wherever an error can be raised).
handleError(rec, err) ==
  [rec EXCEPT !.pc = "errorComment", !.error = err,
              !.calls = Append(@, ErrorComment(err))]

\* The pipeline is inside the apply stage (CommentProcessor.applyChanges,
\* from the GitService construction to the return of pushChanges).
ApplyPcs ==
  {"clone", "setupPull", "configName", "configEmail", "setupCheckout",
   "setupCreate", "fixCheckout", "fixPull", "fixCreate", "add", "status",
   "commit", "push"}

\* p with delivery d's pipeline replaced by rec.
With(d, rec) == [p EXCEPT ![d] = rec]

---------------------------------------------------------------------------
(* The webhook handler *)

\* The handler awaiting processComment instead of scheduling it: a
\* delivery that starts a pipeline is not answered by the handler's step.
WebhookAwaitsPipeline(d) ==
  /\ res[d] = 0
  /\ \A e \in Deliveries : e < d => res[e] # 0
  /\ \E r \in Requests(d) :
       /\ req' = r
       /\ res' = [res EXCEPT ![d] = IF WebhookSchedules(build, r) THEN 0
                                    ELSE WebhookStatus(build, r)]
       /\ p' = With(d, [p[d] EXCEPT
                   !.pc = IF WebhookSchedules(build, r)
                          THEN "scheduled" ELSE "none",
                   !.payload = IF WebhookSchedules(build, r)
                               THEN r.body ELSE OtherBody])
  /\ UNCHANGED <<config, build, now, gitService, wc, remote, ai>>

\* app.post('/webhook'): deliveries arrive one after the other; the
\* handler answers and, for a comment event it accepts, schedules
\* processComment with setImmediate.
Webhook(d) ==
  /\ res[d] = 0
  /\ \A e \in Deliveries : e < d => res[e] # 0
  /\ \E r \in Requests(d) :
       /\ req' = r
       /\ res' = [res EXCEPT ![d] = WebhookStatus(build, r)]
       /\ p' = With(d, [p[d] EXCEPT
                   !.pc = IF WebhookSchedules(build, r)
                          THEN "scheduled" ELSE "none",
                   !.payload = IF WebhookSchedules(build, r)
                               THEN r.body ELSE OtherBody])
  /\ UNCHANGED <<config, build, now, gitService, wc, remote, ai>>

---------------------------------------------------------------------------
(* CommentProcessor.processComment: skip checks and analysis *)

\* The PR file lists getPullRequestFiles can return.
FileLists == {<<>>, <<"a.ts">>, <<"a.ts", "b.ts">>}

\* processComment, lines 32-46: the early returns.
SkipsComment(payload) ==
  \/ ~payload.hasComment \/ ~payload.hasPR
  \/ payload.author = BotLogin

\* The setImmediate callback: processComment up to its first await.  The
\* request object is released (unless the handler already holds the next
\* one); the closure keeps the payload.
ProcessComment(d) ==
  /\ p[d].pc = "scheduled"
  /\ p' = With(d, [p[d] EXCEPT
              !.pc = IF SkipsComment(p[d].payload) THEN "skipped" ELSE "getFiles"])
  /\ req' = IF req.id = d THEN NoRequest ELSE req
  /\ UNCHANGED <<config, build, now, res, gitService, wc, remote, ai>>

\* analyzeComment calls the model (line 101): the prompt is built from the
\* fetched contents and the chat completion is requested.
CallModel(rec) == [rec EXCEPT !.pc = "model", !.analyzeCalls = @ + 1]

\* getPullRequestFiles returns (lines 77-81): a failure is thrown out of
\* analyzeComment into the catch of processComment.
GetPullRequestFilesReturn(d) ==
  /\ p[d].pc = "getFiles"
  /\ \/ p' = With(d, handleError(p[d], Err("AxiosError", "getPullRequestFiles")))
     \/ \E fl \in FileLists :
          p' = With(d, IF fl = <<>> THEN CallModel([p[d] EXCEPT !.files = fl])
                       ELSE [p[d] EXCEPT !.files = fl, !.pc = "getContent"])
  /\ UNCHANGED <<config, build, now, req, res, gitService, wc, remote, ai>>

\* The loop over the PR files without its try/catch: a failed
\* getFileContent call ends the analysis with the call's error.
GetFileContentReturnAborts(d) ==
  /\ p[d].pc = "getContent"
  /\ \/ LET rec == [p[d] EXCEPT !.contents = Append(@, "content")]
        IN p' = With(d, IF Len(rec.contents) = Len(rec.files)
                        THEN CallModel(rec) ELSE rec)
     \/ p' = With(d, handleError(p[d], Err("AxiosError", "getFileContent")))
  /\ UNCHANGED <<config, build, now, req, res, gitService, wc, remote, ai>>

\* getFileContent returns for the next file (lines 85-98): its content, or
\* the placeholder when the call failed.
GetFileContentReturn(d) ==
  /\ p[d].pc = "getContent"
  /\ \E c \in {"content", "File content not available"} :
       LET rec == [p[d] EXCEPT !.contents = Append(@, c)]
       IN p' = With(d, IF Len(rec.contents) = Len(rec.files)
                       THEN CallModel(rec) ELSE rec)
  /\ UNCHANGED <<config, build, now, req, res, gitService, wc, remote, ai>>

\* Replies of the analysis model that a pipeline can receive.
ApplyTwo ==
  ReplyObject(Bool(TRUE), Num(100), Str("bug"),
              Arr(<<GoodEntry("a.ts", "v1"), GoodEntry("b.ts", "v1")>>))
RejectWithChanges ==
  ReplyObject(Bool(FALSE), Num(50), Str("unsure"), Arr(<<GoodEntry("a.ts", "v1")>>))
BadEntry ==
  ReplyObject(Bool(TRUE), Num(90), Str("typo"),
              Arr(<<GoodEntry("a.ts", "v1"), NullEntry>>))

PipelineReplies ==
  { <<Seg("text"), Json(ApplyTwo), Seg("text")>>,
    <<Json(RejectWithChanges)>>, <<Json(BadEntry)>> }

ModelOutcomes == {ApiThrow, ApiEmpty} \cup {ApiReply(t) : t \in PipelineReplies}

RepoOfPath(path) == CHOOSE r \in Repos : RepoPath(r) = path

Log(rec, stage, op, ok) ==
  [rec EXCEPT !.gitLog = Append(@, [stage |-> stage, op |-> op, ok |-> ok])]

\* A check that also applies a declined verdict that holds changes.
DeclinesWithoutChanges(v) == ~v.shouldApply /\ v.changes = <<>>

\* processComment, line 51: the verdict is not applied.
Declines(v) == ~v.shouldApply

\* processComment, lines 51-58, once analyzeComment returned verdict v:
\* the analysis comment is issued, or applyChanges starts: the GitService
\* is constructed and stored in the shared field, and setupRepository
\* issues git clone or git pull (lines 115-124, 28-37).  ctorOk: whether
\* the construction succeeds.
AfterAnalysis(rec, v, ctorOk) ==
  LET done == [rec EXCEPT !.analysis = v, !.files = <<>>, !.contents = <<>>]
      path == RepoPath(rec.payload.repo)
  IN IF v.reasoning.src = "raised"
     THEN handleError([done EXCEPT !.analysis = NoVerdict],
                      Err("Error", v.reasoning.msg))
     ELSE IF Declines(v)
     THEN [done EXCEPT !.pc = "analysisComment",
                       !.calls = Append(@, AnalysisComment(v))]
     ELSE IF ~ctorOk
     THEN handleError(Log(done, "newGitService", "simpleGit", FALSE),
                      Err("GitConstructError", "simpleGit"))
     ELSE [Log(done, "newGitService", "simpleGit", TRUE) EXCEPT
              !.self = path,
              !.pc = IF wc[path].exists THEN "setupPull" ELSE "clone"]

\* processComment entering applyChanges only while no other pipeline is
\* inside it (a lock around the apply stage).
ModelReturnSerialized(d) ==
  /\ p[d].pc = "model"
  /\ \A e \in Deliveries \ {d} : p[e].pc \notin ApplyPcs
  /\ \E out \in ModelOutcomes, ctorOk \in BOOLEAN :
       LET v == openaiAnalyzeComment(out)
           rec == AfterAnalysis([p[d] EXCEPT !.modelOutcome = out.kind], v, ctorOk)
       IN /\ p' = With(d, rec)
          /\ gitService' = IF rec.pc \in {"clone", "setupPull"}
                           THEN RepoPath(p[d].payload.repo) ELSE gitService
  /\ UNCHANGED <<config, build, now, req, res, wc, remote, ai>>

\* The chat completion returns with one of `outcomes`
\* (OpenAIService.analyzeComment, lines 37-51) and processComment goes on
\* (lines 49-58).
ModelReturnOf(d, outcomes) ==
  /\ p[d].pc = "model"
  /\ \E out \in outcomes, ctorOk \in BOOLEAN :
       LET v == openaiAnalyzeComment(out)
           rec == AfterAnalysis([p[d] EXCEPT !.modelOutcome = out.kind], v, ctorOk)
       IN /\ p' = With(d, rec)
          /\ gitService' = IF rec.pc \in {"clone", "setupPull"}
                           THEN RepoPath(p[d].payload.repo) ELSE gitService
  /\ UNCHANGED <<config, build, now, req, res, wc, remote, ai>>

\* The chat completion returns (OpenAIService.analyzeComment, lines 37-51).
ModelReturn(d) == ModelReturnOf(d, ModelOutcomes)

---------------------------------------------------------------------------
(* GitService.setupRepository *)

GitFail(rec, stage, op) ==
  handleError(Log(rec, stage, op, FALSE), Err("GitError", op))

\* git clone returns (line 33).
CloneReturn(d) ==
  /\ p[d].pc = "clone"
  /\ \/ /\ ~wc[p[d].self].exists
        /\ wc' = [wc EXCEPT ![p[d].self] =
                    GitClone(@, remote[RepoOfPath(p[d].self)])]
        /\ p' = With(d, [Log(p[d], "setupRepository", "clone", TRUE)
                           EXCEPT !.pc = "configName"])
     \/ /\ p' = With(d, GitFail(p[d], "setupRepository", "clone"))
        /\ UNCHANGED wc
  /\ UNCHANGED <<config, build, now, req, res, gitService, remote, ai>>

\* setupRepository checking out the base branch before it pulls in a
\* working copy that exists.
SetupPullReturnOnBase(d) ==
  /\ p[d].pc = "setupPull"
  /\ \/ /\ CanCheckout(wc[p[d].self], remote[RepoOfPath(p[d].self)],
                        BaseOf(p[d].payload))
        /\ wc' = [wc EXCEPT ![p[d].self] =
                    GitCheckout(@, remote[RepoOfPath(p[d].self)],
                                BaseOf(p[d].payload))]
        /\ p' = With(d, [Log(p[d], "setupRepository", "pull", TRUE)
                           EXCEPT !.pc = "configName"])
     \/ /\ p' = With(d, GitFail(p[d], "setupRepository", "pull"))
        /\ UNCHANGED wc
  /\ UNCHANGED <<config, build, now, req, res, gitService, remote, ai>>

\* git pull returns (line 36).
SetupPullReturn(d) ==
  /\ p[d].pc = "setupPull"
  /\ \/ /\ CanPull(wc[p[d].self])
        /\ p' = With(d, [Log(p[d], "setupRepository", "pull", TRUE)
                           EXCEPT !.pc = "configName"])
     \/ p' = With(d, GitFail(p[d], "setupRepository", "pull"))
  /\ UNCHANGED <<config, build, now, req, res, gitService, wc, remote, ai>>

\* git config user.name / user.email returns (lines 40-41); after the
\* second one git checkout <branch> is issued (line 45).
AddConfigReturn(d) ==
  /\ p[d].pc \in {"configName", "configEmail"}
  /\ \/ /\ wc[p[d].self].exists
        /\ p' = With(d, [Log(p[d], "setupRepository", "addConfig", TRUE)
                           EXCEPT !.pc = IF p[d].pc = "configName"
                                         THEN "configEmail" ELSE "setupCheckout"])
     \/ p' = With(d, GitFail(p[d], "setupRepository", "addConfig"))
  /\ UNCHANGED <<config, build, now, req, res, gitService, wc, remote, ai>>

\* setupRepository has returned; createFixBranch is called on the shared
\* field's GitService (line 127), names the branch from Date.now() = t
\* and issues git checkout <baseBranch> (lines 56-59).
CallCreateFixBranch(rec, t) ==
  [rec EXCEPT !.self = gitService,
              !.branchName = FixBranchName(rec.payload.number, t),
              !.pc = "fixCheckout"]

\* setupRepository without the catch around its checkout: a failed
\* checkout fails the step.
SetupCheckoutReturnNoFallback(d) ==
  /\ p[d].pc = "setupCheckout"
  /\ \/ /\ CanCheckout(wc[p[d].self], remote[RepoOfPath(p[d].self)],
                        BaseOf(p[d].payload))
        /\ wc' = [wc EXCEPT ![p[d].self] =
                    GitCheckout(@, remote[RepoOfPath(p[d].self)],
                                BaseOf(p[d].payload))]
        /\ \E t \in now..MaxClock :
             /\ now' = t
             /\ p' = With(d, CallCreateFixBranch(
                        Log(p[d], "setupRepository", "checkout", TRUE), t))
     \/ /\ p' = With(d, GitFail(p[d], "setupRepository", "checkout"))
        /\ UNCHANGED <<wc, now>>
  /\ UNCHANGED <<config, build, req, res, gitService, remote, ai>>

\* git checkout <branch> of setupRepository returns (lines 44-49): on a
\* failure git checkout -b <branch> is issued instead.
SetupCheckoutReturn(d) ==
  /\ p[d].pc = "setupCheckout"
  /\ \/ /\ CanCheckout(wc[p[d].self], remote[RepoOfPath(p[d].self)],
                        BaseOf(p[d].payload))
        /\ wc' = [wc EXCEPT ![p[d].self] =
                    GitCheckout(@, remote[RepoOfPath(p[d].self)],
                                BaseOf(p[d].payload))]
        /\ \E t \in now..MaxClock :
             /\ now' = t
             /\ p' = With(d, CallCreateFixBranch(
                        Log(p[d], "setupRepository", "checkout", TRUE), t))
     \/ /\ p' = With(d, [Log(p[d], "setupRepository", "checkout", FALSE)
                           EXCEPT !.pc = "setupCreate"])
        /\ UNCHANGED <<wc, now>>
  /\ UNCHANGED <<config, build, req, res, gitService, remote, ai>>

\* git checkout -b <branch> of setupRepository returns (line 48).
SetupCreateReturn(d) ==
  /\ p[d].pc = "setupCreate"
  /\ \/ /\ CanCheckoutLocalBranch(wc[p[d].self], BaseOf(p[d].payload))
        /\ wc' = [wc EXCEPT ![p[d].self] =
                    GitCheckoutLocalBranch(@, BaseOf(p[d].payload))]
        /\ \E t \in now..MaxClock :
             /\ now' = t
             /\ p' = With(d, CallCreateFixBranch(
                        Log(p[d], "setupRepository", "checkoutLocalBranch", TRUE), t))
     \/ /\ p' = With(d, GitFail(p[d], "setupRepository", "checkoutLocalBranch"))
        /\ UNCHANGED <<wc, now>>
  /\ UNCHANGED <<config, build, req, res, gitService, remote, ai>>

---------------------------------------------------------------------------
(* GitService.createFixBranch, applyChanges, commitChanges, pushChanges *)

\* git checkout <baseBranch> of createFixBranch returns (line 59); git
\* pull is issued.
FixCheckoutReturn(d) ==
  /\ p[d].pc = "fixCheckout"
  /\ \/ /\ CanCheckout(wc[p[d].self], remote[RepoOfPath(p[d].self)],
                        BaseOf(p[d].payload))
        /\ wc' = [wc EXCEPT ![p[d].self] =
                    GitCheckout(@, remote[RepoOfPath(p[d].self)],
                                BaseOf(p[d].payload))]
        /\ p' = With(d, [Log(p[d], "createFixBranch", "checkout", TRUE)
                           EXCEPT !.pc = "fixPull"])
     \/ /\ p' = With(d, GitFail(p[d], "createFixBranch", "checkout"))
        /\ UNCHANGED wc
  /\ UNCHANGED <<config, build, now, req, res, gitService, remote, ai>>

\* git pull of createFixBranch returns (line 60); git checkout -b
\* <branchName> is issued.
FixPullReturn(d) ==
  /\ p[d].pc = "fixPull"
  /\ \/ /\ CanPull(wc[p[d].self])
        /\ p' = With(d, [Log(p[d], "createFixBranch", "pull", TRUE)
                           EXCEPT !.pc = "fixCreate"])
     \/ p' = With(d, GitFail(p[d], "createFixBranch", "pull"))
  /\ UNCHANGED <<config, build, now, req, res, gitService, wc, remote, ai>>

\* The filenames of a change list (commitChanges, line 92).
ChangedFiles(changes) == {changes[i].filename : i \in 1..Len(changes)}

\* git checkout -b <branchName> returns (line 63).  On success
\* createFixBranch returns the name, GitService.applyChanges writes the
\* files (lines 72-84; the write of entry n + 1 may fail) and
\* commitChanges issues git add (line 93): no await lies in between.
FixCreateReturn(d) ==
  /\ p[d].pc = "fixCreate"
  /\ \/ /\ CanCheckoutLocalBranch(wc[p[d].self], p[d].branchName)
        /\ LET created == [wc EXCEPT ![p[d].self] =
                             GitCheckoutLocalBranch(@, p[d].branchName)]
               changes == p[d].analysis.changes
               rec == [Log(p[d], "createFixBranch", "checkoutLocalBranch", TRUE)
                         EXCEPT !.fixBranch = p[d].branchName, !.self = gitService]
           IN \/ /\ wc' = [created EXCEPT ![gitService] =
                             FsWrite(@, changes, Len(changes))]
                 /\ p' = With(d, [Log(rec, "applyChanges", "writeFiles", TRUE)
                                    EXCEPT !.pc = "add"])
              \/ \E n \in 0..(Len(changes) - 1) :
                   /\ wc' = [created EXCEPT ![gitService] = FsWrite(@, changes, n)]
                   /\ p' = With(d, handleError(
                              Log(rec, "applyChanges", "writeFiles", FALSE),
                              Err("Error", "writeFileSync")))
     \/ /\ p' = With(d, GitFail(p[d], "createFixBranch", "checkoutLocalBranch"))
        /\ UNCHANGED wc
  /\ UNCHANGED <<config, build, now, req, res, gitService, remote, ai>>

\* git add returns (line 93); git status is issued.
AddReturn(d) ==
  /\ p[d].pc = "add"
  /\ \/ /\ wc[p[d].self].exists
        /\ wc' = [wc EXCEPT ![p[d].self] =
                    GitAdd(@, ChangedFiles(p[d].analysis.changes))]
        /\ p' = With(d, [Log(p[d], "commitChanges", "add", TRUE)
                           EXCEPT !.pc = "status"])
     \/ /\ p' = With(d, GitFail(p[d], "commitChanges", "add"))
        /\ UNCHANGED wc
  /\ UNCHANGED <<config, build, now, req, res, gitService, remote, ai>>

\* git status returns (lines 96-99): with nothing modified or created the
\* no-changes error is thrown, otherwise git commit is issued.
StatusReturn(d) ==
  /\ p[d].pc = "status"
  /\ \/ /\ wc[p[d].self].exists
        /\ p' = With(d,
             IF StatusModified(wc[p[d].self]) = {} /\ StatusCreated(wc[p[d].self]) = {}
             THEN handleError(Log(Log(p[d], "commitChanges", "status", TRUE),
                                  "commitChanges", "checkChanges", FALSE),
                              Err("Error", "No changes to commit"))
             ELSE [Log(p[d], "commitChanges", "status", TRUE) EXCEPT !.pc = "commit"])
     \/ p' = With(d, GitFail(p[d], "commitChanges", "status"))
  /\ UNCHANGED <<config, build, now, req, res, gitService, wc, remote, ai>>

\* commitChanges followed by the success comment, without pushChanges.
CommitReturnSkipsPush(d) ==
  /\ p[d].pc = "commit"
  /\ wc[p[d].self].exists
  /\ wc' = [wc EXCEPT ![p[d].self] = GitCommit(@, d)]
  /\ p' = With(d, [Log(p[d], "commitChanges", "commit", TRUE)
                     EXCEPT !.pc = "summary"])
  /\ UNCHANGED <<config, build, now, req, res, gitService, remote, ai>>

\* git commit returns (line 117); pushChanges is called on the shared
\* field's GitService and issues git push (lines 142, 125).
CommitReturn(d) ==
  /\ p[d].pc = "commit"
  /\ \/ /\ wc[p[d].self].exists
        /\ wc' = [wc EXCEPT ![p[d].self] = GitCommit(@, d)]
        /\ p' = With(d, [Log(p[d], "commitChanges", "commit", TRUE)
                           EXCEPT !.pc = "push", !.self = gitService])
     \/ /\ p' = With(d, GitFail(p[d], "commitChanges", "commit"))
        /\ UNCHANGED wc
  /\ UNCHANGED <<config, build, now, req, res, gitService, remote, ai>>

\* pushChanges undoing the commit when the push fails: the base branch is
\* checked out again and the fix branch deleted.
PushReturnRollsBack(d) ==
  /\ p[d].pc = "push"
  /\ \/ /\ CanPush(wc[p[d].self], p[d].fixBranch)
        /\ remote' = [remote EXCEPT ![RepoOfPath(p[d].self)] =
                        GitPush(wc[p[d].self], @, p[d].fixBranch)]
        /\ p' = With(d, [Log(p[d], "pushChanges", "push", TRUE)
                           EXCEPT !.pc = "summary"])
        /\ UNCHANGED wc
     \/ /\ p' = With(d, GitFail(p[d], "pushChanges", "push"))
        /\ wc' = [wc EXCEPT ![p[d].self] =
                    [@ EXCEPT !.head = MainBranch,
                              !.branches = [b \in DOMAIN @ \ {p[d].fixBranch} |-> @[b]]]]
        /\ UNCHANGED remote
  /\ UNCHANGED <<config, build, now, req, res, gitService, ai>>

\* git push returns (line 125); addSuccessComment asks the model for the
\* summary (line 194).
PushReturn(d) ==
  /\ p[d].pc = "push"
  /\ \/ /\ CanPush(wc[p[d].self], p[d].fixBranch)
        /\ remote' = [remote EXCEPT ![RepoOfPath(p[d].self)] =
                        GitPush(wc[p[d].self], @, p[d].fixBranch)]
        /\ p' = With(d, [Log(p[d], "pushChanges", "push", TRUE)
                           EXCEPT !.pc = "summary"])
     \/ /\ p' = With(d, GitFail(p[d], "pushChanges", "push"))
        /\ UNCHANGED remote
  /\ UNCHANGED <<config, build, now, req, res, gitService, wc, ai>>

---------------------------------------------------------------------------
(* Comments on the PR *)

\* generateChangeSummary, lines 195-207: the model's text, or the fixed
\* sentence when the call fails or returns no text.
Summaries == {"summary", "Applied suggested changes"}

\* The fixed sentence of generateChangeSummary (lines 203, 206).
FixedSummary == "Applied suggested changes"

\* What the chat-completion call of generateChangeSummary can produce: a
\* thrown error, a reply with no content, or a reply text.
SummaryOutcomes ==
  { [kind |-> "throw", text |-> ""], [kind |-> "empty", text |-> ""],
    [kind |-> "reply", text |-> "summary"] }

\* The value that stands for an error generateChangeSummary throws.
SummaryRaised == "raised"

\* generateChangeSummary without its catch block.
generateChangeSummaryNoCatch(out) ==
  IF out.kind = "throw" THEN SummaryRaised
  ELSE IF out.kind = "empty" THEN FixedSummary
  ELSE out.text

\* generateChangeSummary, lines 195-207, given the call's outcome.
generateChangeSummary(out) ==
  IF out.kind = "throw" THEN FixedSummary
  ELSE IF out.kind = "empty" THEN FixedSummary
  ELSE out.text

\* The summary call returns (line 194); createComment is issued with the
\* success comment (lines 196-219).  An error thrown by
\* generateChangeSummary would reach the catch of processComment.
SummaryReturn(d) ==
  /\ p[d].pc = "summary"
  /\ \E out \in SummaryOutcomes :
       LET text == generateChangeSummary(out)
       IN p' = With(d, IF text = SummaryRaised
                       THEN handleError(p[d], Err("Error", "API error"))
                       ELSE [p[d] EXCEPT
                               !.pc = "successComment",
                               !.calls = Append(@, SuccessComment(p[d].analysis,
                                                                  p[d].fixBranch, text))])
  /\ UNCHANGED <<config, build, now, req, res, gitService, wc, remote, ai>>

\* createComment issued again when it failed, instead of the error
\* reaching the catch of processComment.
CommentReturnRetries(d) ==
  /\ p[d].pc \in {"analysisComment", "successComment"}
  /\ \/ p' = With(d, [p[d] EXCEPT
                !.pc = "done",
                !.posted = Append(@, p[d].calls[Len(p[d].calls)])])
     \/ /\ Len(p[d].calls) < 3
        /\ p' = With(d, [p[d] EXCEPT !.calls = Append(@, p[d].calls[Len(p[d].calls)])])
  /\ UNCHANGED <<config, build, now, req, res, gitService, wc, remote, ai>>

\* createComment of the analysis or success comment returns: the comment
\* is on the PR, or the call's error reaches the catch of processComment.
CommentReturn(d) ==
  /\ p[d].pc \in {"analysisComment", "successComment"}
  /\ \/ p' = With(d, [p[d] EXCEPT
                !.pc = "done",
                !.posted = Append(@, p[d].calls[Len(p[d].calls)])])
     \/ p' = With(d, handleError(p[d], Err("AxiosError", "createComment")))
  /\ UNCHANGED <<config, build, now, req, res, gitService, wc, remote, ai>>

\* handleError without the try/catch around its createComment call: a
\* failure rejects the promise of processComment.
ErrorCommentReturnNoCatch(d) ==
  /\ p[d].pc = "errorComment"
  /\ \/ p' = With(d, [p[d] EXCEPT
                !.pc = "done",
                !.posted = Append(@, p[d].calls[Len(p[d].calls)])])
     \/ p' = With(d, [p[d] EXCEPT !.pc = "rejected"])
  /\ UNCHANGED <<config, build, now, req, res, gitService, wc, remote, ai>>

\* handleError handing the event back to setImmediate once its createComment
\* call returned, so that processComment runs again for the same event.
ErrorCommentReturnReprocesses(d) ==
  /\ p[d].pc = "errorComment"
  /\ \/ p' = With(d, [p[d] EXCEPT
                !.pc = "done",
                !.posted = Append(@, p[d].calls[Len(p[d].calls)])])
     \/ p' = With(d, [p[d] EXCEPT !.pc = "scheduled"])
  /\ UNCHANGED <<config, build, now, req, res, gitService, wc, remote, ai>>

\* createComment of handleError returns (lines 245-254): a failure is
\* logged and swallowed.
ErrorCommentReturn(d) ==
  /\ p[d].pc = "errorComment"
  /\ \/ p' = With(d, [p[d] EXCEPT
                !.pc = "done",
                !.posted = Append(@, p[d].calls[Len(p[d].calls)])])
     \/ p' = With(d, [p[d] EXCEPT !.pc = "done"])
  /\ UNCHANGED <<config, build, now, req, res, gitService, wc, remote, ai>>

---------------------------------------------------------------------------
(* Specification *)

Next ==
  \E d \in Deliveries :
    \/ Webhook(d)
    \/ ProcessComment(d)
    \/ GetPullRequestFilesReturn(d)
    \/ GetFileContentReturn(d)
    \/ ModelReturn(d)
    \/ CloneReturn(d)
    \/ SetupPullReturn(d)
    \/ AddConfigReturn(d)
    \/ SetupCheckoutReturn(d)
    \/ SetupCreateReturn(d)
    \/ FixCheckoutReturn(d)
    \/ FixPullReturn(d)
    \/ FixCreateReturn(d)
    \/ AddReturn(d)
    \/ StatusReturn(d)
    \/ CommitReturn(d)
    \/ PushReturn(d)
    \/ SummaryReturn(d)
    \/ CommentReturn(d)
    \/ ErrorCommentReturn(d)

Spec == Init /\ [][Next]_vars

\* A step of the pipeline of delivery d: the callback of setImmediate, or
\* the continuation after an awaited call returned.
PipelineStep(d) ==
  \/ ProcessComment(d)
  \/ GetPullRequestFilesReturn(d)
  \/ GetFileContentReturn(d)
  \/ ModelReturn(d)
  \/ CloneReturn(d)
  \/ SetupPullReturn(d)
  \/ AddConfigReturn(d)
  \/ SetupCheckoutReturn(d)
  \/ SetupCreateReturn(d)
  \/ FixCheckoutReturn(d)
  \/ FixPullReturn(d)
  \/ FixCreateReturn(d)
  \/ AddReturn(d)
  \/ StatusReturn(d)
  \/ CommitReturn(d)
  \/ PushReturn(d)
  \/ SummaryReturn(d)
  \/ CommentReturn(d)
  \/ ErrorCommentReturn(d)

---------------------------------------------------------------------------
(* Deliveries that arrive one after the other's pipeline has ended *)

\* No pipeline other than d's is scheduled or running.
Sequential(d) ==
  \A e \in Deliveries \ {d} : p[e].pc \in {"idle", "none", "skipped", "done"}

\* The steps of the server when a delivery arrives only after the pipeline
\* of the delivery before it has ended.
NextSequential ==
  \E d \in Deliveries :
    \/ Sequential(d) /\ Webhook(d)
    \/ Sequential(d) /\ ProcessComment(d)
    \/ Sequential(d) /\ GetPullRequestFilesReturn(d)
    \/ Sequential(d) /\ GetFileContentReturn(d)
    \/ Sequential(d) /\ ModelReturn(d)
    \/ Sequential(d) /\ CloneReturn(d)
    \/ Sequential(d) /\ SetupPullReturn(d)
    \/ Sequential(d) /\ AddConfigReturn(d)
    \/ Sequential(d) /\ SetupCheckoutReturn(d)
    \/ Sequential(d) /\ SetupCreateReturn(d)
    \/ Sequential(d) /\ FixCheckoutReturn(d)
    \/ Sequential(d) /\ FixPullReturn(d)
    \/ Sequential(d) /\ FixCreateReturn(d)
    \/ Sequential(d) /\ AddReturn(d)
    \/ Sequential(d) /\ StatusReturn(d)
    \/ Sequential(d) /\ CommitReturn(d)
    \/ Sequential(d) /\ PushReturn(d)
    \/ Sequential(d) /\ SummaryReturn(d)
    \/ Sequential(d) /\ CommentReturn(d)
    \/ Sequential(d) /\ ErrorCommentReturn(d)

SpecSequential == Init /\ [][NextSequential]_vars

---------------------------------------------------------------------------
(* Deliveries of two repositories *)

\* The requests delivery d can be when both repositories deliver created
\* comments of users on their PR 1, with GitHub's signature.
RepoRequests(d) ==
  {Request(d, "pull_request_review_comment", TRUE,
           GitHubSignature([UserCommentBody EXCEPT !.repo = r]),
           [UserCommentBody EXCEPT !.repo = r]) : r \in Repos}

\* app.post('/webhook') for a delivery of either repository.
WebhookOfRepos(d) ==
  /\ res[d] = 0
  /\ \A e \in Deliveries : e < d => res[e] # 0
  /\ \E r \in RepoRequests(d) :
       /\ req' = r
       /\ res' = [res EXCEPT ![d] = WebhookStatus(build, r)]
       /\ p' = With(d, [p[d] EXCEPT
                   !.pc = IF WebhookSchedules(build, r)
                          THEN "scheduled" ELSE "none",
                   !.payload = IF WebhookSchedules(build, r)
                               THEN r.body ELSE OtherBody])
  /\ UNCHANGED <<config, build, now, gitService, wc, remote, ai>>

NextRepos == \E d \in Deliveries : WebhookOfRepos(d) \/ PipelineStep(d)

SpecRepos == Init /\ [][NextRepos]_vars

---------------------------------------------------------------------------
(* OpenAIService.analyzeComment on its own *)

\* Values the members of a reply object can have.
ShouldApplyValues == {Bool(TRUE), Bool(FALSE), Str("yes"), Undefined}
ConfidenceValues ==
  {Num(0), Num(50), Num(100), Num(101), Num(-1), Str("0.9"), Undefined}
ReasoningValues == {Str("typo"), Null, Undefined}
ChangesValues ==
  { Arr(<<>>), Arr(<<GoodEntry("a.ts", "v1")>>),
    Arr(<<GoodEntry("a.ts", "v1"), GoodEntry("b.ts", "v1")>>),
    Arr(<<GoodEntry("a.ts", "v1"), NullEntry>>),
    Arr(<<StringEntry, GoodEntry("a.ts", "v1")>>),
    Arr(<<Entry(Str("a.ts"), Num(1), Str("fix"), Undefined)>>),
    Arr(<<Entry(Str("a.ts"), Str("v1"), Undefined, Num(3))>>),
    Arr(<<Entry(Undefined, Str("v1"), Str("fix"), Undefined)>>),
    NotArr("object"), NotArr("undefined") }

ReplyObjects ==
  { ReplyObject(sa, conf, reason, ch) :
      sa \in ShouldApplyValues, conf \in ConfidenceValues,
      reason \in ReasoningValues, ch \in ChangesValues }

\* The texts a reply object can arrive in: bare, wrapped in prose, followed
\* by a stray "}", preceded by a stray "{", or twice.
TextsOf(o) ==
  { <<Json(o)>>, <<Seg("text"), Json(o), Seg("text")>>,
    <<Json(o), Seg("close")>>, <<Seg("open"), Json(o)>>, <<Json(o), Json(o)>> }

\* The outcomes of the model call analyzeComment is given.
Responses ==
  {ApiThrow, ApiEmpty, ApiReply(<<Seg("text")>>), ApiReply(<<Seg("badjson")>>)}
  \cup {ApiReply(t) : t \in UNION {TextsOf(o) : o \in ReplyObjects}}

InitAnalyze ==
  /\ InitServer
  /\ aiResponse \in Responses
  /\ aiResult = NoVerdict
  /\ verifyInput = NoVerifyInput
  /\ verifyResult = "none"
  /\ branchInput = NoBranchInput
  /\ branchResult = <<>>
  /\ applyInput = NoApplyInput
  /\ applyResult = NoResult
  /\ commitInput = NoCommitInput
  /\ commitResult = NoResult

\* analyzeComment returns.
AnalyzeReturn ==
  /\ aiResult = NoVerdict
  /\ aiResult' = openaiAnalyzeComment(aiResponse)
  /\ UNCHANGED <<config, build, now, req, res, p, gitService, wc, remote,
                 aiResponse, verifyInput, verifyResult, branchInput, branchResult,
                 applyInput, applyResult, commitInput, commitResult>>

NextAnalyze == AnalyzeReturn

SpecAnalyze == InitAnalyze /\ [][NextAnalyze]_vars

---------------------------------------------------------------------------
(* GitHubService.verifyWebhookSignature on its own *)

\* Largest number of characters after the prefix in a signature string.
MaxSigLen == 3

\* The characters of a signature string: hexadecimal digits in both cases
\* and a character that is no hexadecimal digit.
SigChars == HexDigits \cup {"z"}

\* The character strings of at most n characters.
RECURSIVE SigStrings(_)
SigStrings(n) ==
  IF n = 0 THEN {<<>>}
  ELSE LET shorter == SigStrings(n - 1)
       IN shorter \cup {Append(s, c) : s \in {x \in shorter : Len(x) = n - 1},
                                       c \in SigChars}

\* The payloads verifyWebhookSignature is given: two request bodies with
\* different digests.
VerifyPayloads == {UserCommentBody, [UserCommentBody EXCEPT !.action = "edited"]}

\* The signature strings: with and without the prefix "sha256=".
VerifySignatures ==
  {[present |-> TRUE, prefix |-> pre, hex |-> h] :
     pre \in BOOLEAN, h \in SigStrings(MaxSigLen)}

InitVerify ==
  /\ InitServer
  /\ aiResponse = ApiEmpty
  /\ aiResult = NoVerdict
  /\ verifyInput \in [payload : VerifyPayloads, signature : VerifySignatures]
  /\ verifyResult = "none"
  /\ branchInput = NoBranchInput
  /\ branchResult = <<>>
  /\ applyInput = NoApplyInput
  /\ applyResult = NoResult
  /\ commitInput = NoCommitInput
  /\ commitResult = NoResult

\* verifyWebhookSignature returns or throws.
VerifyReturn ==
  /\ verifyResult = "none"
  /\ verifyResult' = verifyWebhookSignature(build, verifyInput.payload,
                                            verifyInput.signature)
  /\ UNCHANGED <<config, build, now, req, res, p, gitService, wc, remote,
                 aiResponse, aiResult, verifyInput, branchInput, branchResult,
                 applyInput, applyResult, commitInput, commitResult>>

NextVerify == VerifyReturn

SpecVerify == InitVerify /\ [][NextVerify]_vars

---------------------------------------------------------------------------
(* GitService.createFixBranch on its own *)

\* The decimal digits of a natural number, as a template literal writes it.
DecimalDigits == <<"0", "1", "2", "3", "4", "5", "6", "7", "8", "9">>
RECURSIVE Decimal(_)
Decimal(n) ==
  IF n < 10 THEN <<DecimalDigits[n + 1]>>
  ELSE Decimal(n \div 10) \o <<DecimalDigits[(n % 10) + 1]>>

\* The text of a fix branch's name: `fix/pr-${prNumber}-${Date.now()}`.
BranchText(b) == <<"fix/pr-">> \o Decimal(b.pr) \o <<"-">> \o Decimal(b.ts)

\* The names a base branch of a PR can have: the two base branches, and
\* names of the form the bot gives its own branches (a PR can target a
\* branch the bot pushed).
BaseBranchTexts ==
  {<<"main">>, <<"develop">>}
  \cup {BranchText(FixBranchName(n, t)) : n \in PRNumbers, t \in 1..MaxClock}

\* The error of a call that throws instead of returning a name.
BranchThrow == <<"throw">>

\* createFixBranch with git checkout -B, which resets an existing branch.
createFixBranchReset(baseBranch, prNumber, t, local) ==
  BranchText(FixBranchName(prNumber, t))

\* createFixBranch(baseBranch, prNumber) at Date.now() = t in a working
\* copy with the local branches `local` (every branch of the remote can be
\* checked out) when no git call fails for an outside reason: git checkout
\* <baseBranch> makes the base branch a local branch, git checkout -b
\* <branchName> fails when a local branch has that name.
createFixBranch(baseBranch, prNumber, t, local) ==
  LET branchName == BranchText(FixBranchName(prNumber, t))
      afterCheckout == local \cup {baseBranch}
  IN IF branchName \in afterCheckout THEN BranchThrow ELSE branchName

InitCreateFixBranch ==
  /\ InitServer
  /\ aiResponse = ApiEmpty
  /\ aiResult = NoVerdict
  /\ verifyInput = NoVerifyInput
  /\ verifyResult = "none"
  /\ branchInput \in [baseBranch : BaseBranchTexts, prNumber : PRNumbers,
                       clock : 1..MaxClock, local : SUBSET BaseBranchTexts]
  /\ branchResult = <<>>
  /\ applyInput = NoApplyInput
  /\ applyResult = NoResult
  /\ commitInput = NoCommitInput
  /\ commitResult = NoResult

\* createFixBranch returns its branch name, or throws: one of its three
\* git calls failed.
CreateFixBranchReturn ==
  /\ branchResult = <<>>
  /\ \/ branchResult' = createFixBranch(branchInput.baseBranch, branchInput.prNumber,
                                         branchInput.clock, branchInput.local)
     \/ branchResult' = BranchThrow
  /\ UNCHANGED <<config, build, now, req, res, p, gitService, wc, remote,
                 aiResponse, aiResult, verifyInput, verifyResult, branchInput,
                 applyInput, applyResult, commitInput, commitResult>>

NextCreateFixBranch == CreateFixBranchReturn

SpecCreateFixBranch == InitCreateFixBranch /\ [][NextCreateFixBranch]_vars

---------------------------------------------------------------------------
(* Properties of the webhook endpoint and of the skip checks *)

\* The signature check as documented: header and raw body are present and
\* the header carries the HMAC of the body.
SignatureValid(r) ==
  r.signature.present /\ r.hasRawBody /\ r.signature.hex = Hmac(r.body)

\* The pipeline of a delivery was never invoked.
NotInvoked(rec) ==
  /\ rec.pc = "none"
  /\ rec.analyzeCalls = 0 /\ rec.gitLog = <<>> /\ rec.calls = <<>>

\* C1: a delivery whose signature check fails (header absent, raw body
\* absent, signature not matching the body) is answered 401 and invokes no
\* pipeline.
C1_InvalidSignatureAnswered401 ==
  (req.id # 0 /\ ~SignatureValid(req))
     => (res[req.id] = 401 /\ NotInvoked(p[req.id]))

\* C2: a delivery whose action is not "created" or that carries no
\* pull_request never invokes the model or a GitService operation and posts
\* no comment: the handler schedules nothing for it, and a delivery for
\* which nothing was scheduled stays without calls for ever.
C2_IneligibleNeverInvoked ==
  [][\A d \in Deliveries :
       /\ (res[d] = 0 /\ res'[d] # 0
            /\ (req'.body.action # "created" \/ ~req'.body.hasPR))
          => NotInvoked(p'[d])
       /\ NotInvoked(p[d]) => NotInvoked(p'[d])]_vars

\* An edited comment on a PR was delivered with GitHub's signature and
\* answered 200 with nothing scheduled, while the pipeline of the earlier
\* delivery waits for its push.
C2_Witness ==
  /\ req.id = 2 /\ SignatureValid(req) /\ req.event \in CommentEvents
  /\ (req.body.action = "edited" /\ req.body.hasPR /\ req.body.hasComment)
  /\ res[2] = 200 /\ NotInvoked(p[2])
  /\ p[1].pc = "push"

\* C3: a comment whose author is the configured bot identity
\* (GIT_USER_NAME) never gets past the skip checks: no model call, no git
\* operation, no comment.
C3_ConfiguredBotSkipped ==
  \A d \in Deliveries :
    (p[d].payload.hasComment /\ p[d].payload.author = config.userName)
       => /\ p[d].pc \in {"scheduled", "skipped"}
          /\ p[d].analyzeCalls = 0 /\ p[d].gitLog = <<>> /\ p[d].calls = <<>>

---------------------------------------------------------------------------
(* Properties of the analysis *)

\* A reply object in the response format of the system prompt: boolean
\* shouldApply, confidence a number in [0,1], string reasoning, and changes
\* an array of objects with string filename, content and description.
WellFormedObject(o) ==
  /\ o.shouldApply.t = "boolean"
  /\ o.confidence.t = "number" /\ o.confidence.n >= 0 /\ o.confidence.n <= 100
  /\ o.reasoning.t = "string"
  /\ o.changes.t = "array"
  /\ \A i \in 1..Len(o.changes.items) :
       LET e == o.changes.items[i]
       IN /\ e.kind = "object"
          /\ e.filename.t = "string" /\ e.content.t = "string"
          /\ e.description.t = "string"

\* The pieces of a reply text that hold a brace.
BracePieces(text) == {i \in 1..Len(text) : text[i].k # "text"}

\* A reply text whose braces delimit one JSON object in the response format.
WellFormedReply(text) ==
  /\ Cardinality(BracePieces(text)) = 1
  /\ \A i \in BracePieces(text) : text[i].k = "json" /\ WellFormedObject(text[i].o)

\* The safe default verdict.
SafeDefault(v) == ~v.shouldApply /\ v.changes = <<>> /\ v.confidence = 0

\* analyzeComment has returned.
Returned == aiResult # NoVerdict

NoGitActivity(rec) ==
  /\ rec.gitLog = <<>> /\ rec.self = NoPath
  /\ rec.branchName = NoBranch /\ rec.fixBranch = NoBranch
  /\ rec.pc \notin ApplyPcs

\* The first createComment call of the pipeline carries the analysis
\* comment of its verdict; a second call is the error comment for the
\* failure of the first; what is posted is what a call carried.
OnlyAnalysisComment(rec) ==
  /\ rec.calls # <<>>
  /\ rec.calls[1].kind = "analysis"
  /\ rec.calls[1].decision = FALSE
  /\ rec.calls[1].reasoning = rec.analysis.reasoning
  /\ rec.calls[1].confidence = rec.analysis.confidence
  /\ Len(rec.calls) <= 2
  /\ Len(rec.calls) = 2 =>
       /\ rec.calls[2].kind = "error" /\ rec.calls[2].errClass = "AxiosError"
       /\ rec.posted \in {<<>>, <<rec.calls[2]>>}
  /\ Len(rec.calls) = 1 =>
       /\ rec.pc \in {"analysisComment", "done"}
       /\ rec.posted = IF rec.pc = "done" THEN <<rec.calls[1]>> ELSE <<>>

\* C5: a failure of the model call (a thrown error, an empty reply) becomes
\* the safe default verdict and is not propagated; the pipeline issues the
\* analysis comment whose reasoning is the failure reason and performs no
\* working-copy operation.
C5_ModelFailureSafeDefault ==
  \A d \in Deliveries :
    p[d].modelOutcome \in {"throw", "empty"}
      => /\ SafeDefault(p[d].analysis)
         /\ p[d].analysis.reasoning =
              [src |-> "api",
               msg |-> IF p[d].modelOutcome = "empty"
                       THEN "No response from OpenAI" ELSE "API error"]
         /\ NoGitActivity(p[d])
         /\ OnlyAnalysisComment(p[d])

\* The model call of a pipeline threw and the pipeline ended with the
\* analysis comment posted.
C5_Witness ==
  \E d \in Deliveries :
    /\ p[d].modelOutcome = "throw" /\ p[d].pc = "done"
    /\ p[d].posted = <<AnalysisComment(p[d].analysis)>>
    /\ p[d].analysis.reasoning.msg = "API error"

\* C6: a verdict with shouldApply = false, with or without changes, leads to
\* no branch and no working-copy operation; the pipeline issues one analysis
\* comment carrying the reasoning and the confidence.
C6_DeclinedVerdictNoGit ==
  \A d \in Deliveries :
    (p[d].analysis # NoVerdict /\ ~p[d].analysis.shouldApply)
      => NoGitActivity(p[d]) /\ OnlyAnalysisComment(p[d])

\* A declined verdict that holds a change ended with its analysis comment
\* posted, while the other pipeline has created its fix branch.
C6_Witness ==
  \E d \in Deliveries, e \in Deliveries :
    /\ ~p[d].analysis.shouldApply /\ p[d].analysis.changes # <<>>
    /\ p[d].analysis.confidence = 50
    /\ p[d].pc = "done" /\ p[d].posted = <<AnalysisComment(p[d].analysis)>>
    /\ e # d /\ p[e].fixBranch # NoBranch

---------------------------------------------------------------------------
(* Properties of the apply stage *)

\* The content the change list proposes for file f (the last entry naming
\* it wins), "none" if no entry names it.
Proposed(changes, f) ==
  LET named == {i \in 1..Len(changes) : changes[i].filename = f}
  IN IF named = {} THEN "none"
     ELSE changes[CHOOSE i \in named : \A k \in named : i >= k].content

\* Every operation of the pipeline succeeded and it has issued or posted its
\* success comment.
SucceededThroughout(rec) ==
  /\ rec.pc \in {"successComment", "done"}
  /\ rec.error = NoError
  /\ \A i \in 1..Len(rec.gitLog) : rec.gitLog[i].ok
  /\ Len(rec.calls) = 1 /\ rec.calls[1].kind = "success"

\* C7: when the verdict has shouldApply = true and every operation
\* succeeds, the branch fix/pr-<N>-<timestamp> of the event is on the remote,
\* its commit holds the proposed file contents, and the success comment
\* names that branch.
C7_SuccessPushesProposedContents ==
  \A d \in Deliveries :
    SucceededThroughout(p[d])
      => LET b == p[d].calls[1].branch
             r == remote[p[d].payload.repo]
         IN /\ b = p[d].fixBranch
            /\ b.kind = "fix" /\ b.pr = p[d].payload.number
            /\ b \in DOMAIN r
            /\ \A f \in Files :
                 Proposed(p[d].analysis.changes, f) # "none"
                   => r[b].tree[f] = Proposed(p[d].analysis.changes, f)

\* The stages of the apply stage in the order applyChanges calls them
\* (the construction of the GitService first).
StageOrder ==
  <<"newGitService", "setupRepository", "createFixBranch", "applyChanges",
    "commitChanges", "pushChanges">>
StageRank(stage) ==
  CASE stage = "newGitService" -> 1
    [] stage = "setupRepository" -> 2
    [] stage = "createFixBranch" -> 3
    [] stage = "applyChanges" -> 4
    [] stage = "commitChanges" -> 5
    [] stage = "pushChanges" -> 6

\* The operation whose success completes a stage.
CompletesStage(entry) ==
  /\ entry.ok
  /\ entry.op \in
       (CASE entry.stage = "newGitService" -> {"simpleGit"}
          [] entry.stage = "setupRepository" -> {"checkout", "checkoutLocalBranch"}
          [] entry.stage = "createFixBranch" -> {"checkoutLocalBranch"}
          [] entry.stage = "applyChanges" -> {"writeFiles"}
          [] entry.stage = "commitChanges" -> {"commit"}
          [] entry.stage = "pushChanges" -> {"push"})

HasCall(rec, kind) == \E k \in 1..Len(rec.calls) : rec.calls[k].kind = kind

\* C8: within a pipeline the operations of the apply stage follow the order
\* setupRepository, createFixBranch, applyChanges, commitChanges,
\* pushChanges, a stage starting only after the stage before it completed;
\* no comment is issued while the stage is running; the success comment is
\* issued only after the push succeeded and an error comment only after a
\* failure.
C8_ApplyStageOrder ==
  \A d \in Deliveries :
    LET log == p[d].gitLog
    IN /\ \A j \in 1..Len(log) :
            /\ \A i \in 1..(j - 1) : StageRank(log[i].stage) <= StageRank(log[j].stage)
            /\ \A k \in 1..(StageRank(log[j].stage) - 1) :
                 \E i \in 1..(j - 1) :
                   log[i].stage = StageOrder[k] /\ CompletesStage(log[i])
       /\ p[d].pc \in ApplyPcs => p[d].calls = <<>>
       /\ HasCall(p[d], "success")
            => /\ log # <<>>
               /\ log[Len(log)] = [stage |-> "pushChanges", op |-> "push", ok |-> TRUE]
               /\ p[d].calls[1].kind = "success"
       /\ HasCall(p[d], "error") => p[d].error # NoError

\* A pipeline went through the five stages and its success comment is
\* posted.
C8_Witness ==
  \E d \in Deliveries :
    /\ p[d].pc = "done" /\ Len(p[d].posted) = 1 /\ p[d].posted[1].kind = "success"
    /\ \A k \in 1..Len(StageOrder) :
         \E i \in 1..Len(p[d].gitLog) : p[d].gitLog[i].stage = StageOrder[k]

\* The error a failed operation of the apply stage raises.
StepError(entry) ==
  IF entry.op = "simpleGit" THEN Err("GitConstructError", "simpleGit")
  ELSE IF entry.op = "writeFiles" THEN Err("Error", "writeFileSync")
  ELSE IF entry.op = "checkChanges" THEN Err("Error", "No changes to commit")
  ELSE Err("GitError", entry.op)

\* The failed checkout that setupRepository catches to create the branch
\* instead (git.ts, lines 44-49): it does not fail the step.
CaughtInStep(entry) ==
  entry.stage = "setupRepository" /\ entry.op = "checkout" /\ ~entry.ok

\* C9: when a step of the apply stage fails, no later step of the stage is
\* executed, and the pipeline issues one comment, the error comment with the
\* class name and the message of the step's error, which is on the PR once
\* the call succeeded.
C9_StepFailureReported ==
  \A d \in Deliveries :
    LET log == p[d].gitLog
    IN /\ \A i \in 1..(Len(log) - 1) :
            \/ log[i].ok
            \/ /\ CaughtInStep(log[i])
               /\ log[i + 1].stage = "setupRepository"
               /\ log[i + 1].op = "checkoutLocalBranch"
       /\ (log # <<>> /\ CaughtInStep(log[Len(log)])) => p[d].pc = "setupCreate"
       /\ (log # <<>> /\ ~log[Len(log)].ok /\ ~CaughtInStep(log[Len(log)]))
            => /\ p[d].pc \in {"errorComment", "done"}
               /\ p[d].calls = <<ErrorComment(StepError(log[Len(log)]))>>
               /\ p[d].calls[1].errClass = StepError(log[Len(log)]).class
               /\ p[d].calls[1].errMsg = StepError(log[Len(log)]).msg
               /\ p[d].posted \in {<<>>, p[d].calls}
               /\ p[d].pc = "errorComment" => p[d].posted = <<>>

\* The push of a pipeline failed after its commit and the error comment
\* naming GitError and the push is posted.
C9_Witness ==
  \E d \in Deliveries :
    /\ p[d].pc = "done"
    /\ Len(p[d].gitLog) > 1
    /\ p[d].gitLog[Len(p[d].gitLog)] =
         [stage |-> "pushChanges", op |-> "push", ok |-> FALSE]
    /\ p[d].posted = <<ErrorComment(Err("GitError", "push"))>>

---------------------------------------------------------------------------
(* Properties of the comments of a pipeline *)

\* C10 as stated: every pipeline run that is not skipped ends with exactly
\* one comment posted.
C10_ExactlyOneComment ==
  \A d \in Deliveries : p[d].pc = "done" => Len(p[d].posted) = 1

\* C10: a pipeline run that is not skipped never posts more than one comment,
\* and it ends with exactly one unless the createComment call of handleError
\* failed: then it ends with none.
C10_OneCommentUnlessErrorCommentFails ==
  \A d \in Deliveries :
    /\ Len(p[d].posted) <= 1
    /\ p[d].posted # <<>> =>
         (p[d].pc = "done" /\ p[d].posted[1] = p[d].calls[Len(p[d].calls)])
    /\ (p[d].pc = "done" /\ p[d].posted = <<>>)
         => /\ p[d].calls # <<>>
            /\ p[d].calls[Len(p[d].calls)].kind = "error"
            /\ p[d].error # NoError

\* The call posting the success comment failed after the push, and the
\* error comment is the one comment of the run.
C10_Witness ==
  \E d \in Deliveries :
    /\ p[d].pc = "done"
    /\ Len(p[d].calls) = 2 /\ p[d].calls[1].kind = "success"
    /\ p[d].posted = <<ErrorComment(Err("AxiosError", "createComment"))>>

---------------------------------------------------------------------------
(* Properties of the acknowledgment *)

\* The signature check of the handler (line 44) let the request through.
SignatureAccepted(b, r) ==
  /\ r.signature.present /\ r.hasRawBody
  /\ verifyWebhookSignature(b, r.body, r.signature) = "true"

\* The body of processComment has started.
PipelineStarted(rec) == rec.pc \notin {"idle", "none", "scheduled"}

\* The pipeline has ended (skipped, or after its last createComment call).
PipelineEnded(rec) == rec.pc \in {"skipped", "done"}

\* C11: a delivery whose signature the handler accepts (the header GitHub
\* computes is accepted by every build) is answered 200 in the handler's own
\* step, in which the pipeline is at most scheduled and has done nothing;
\* the body of processComment runs only for a delivery already answered 200,
\* and no step of a pipeline changes an answer that was given.
C11_AcknowledgedBeforePipeline ==
  [][\A d \in Deliveries :
       /\ (res[d] = 0 /\ res'[d] # 0)
            => /\ req'.id = d
               /\ SignatureAccepted(build, req') => res'[d] = 200
               /\ (req'.hasRawBody /\ req'.signature = GitHubSignature(req'.body))
                    => res'[d] = 200
               /\ p'[d].pc \in {"scheduled", "none"}
               /\ p'[d].analyzeCalls = 0 /\ p'[d].gitLog = <<>> /\ p'[d].calls = <<>>
       /\ res[d] # 0 => res'[d] = res[d]
       /\ PipelineStarted(p'[d]) => res'[d] = 200]_vars

\* Both deliveries were answered 200; one pipeline ended with its success
\* comment posted, the other with an error comment.
C11_Witness ==
  \E d \in Deliveries, e \in Deliveries :
    /\ res[d] = 200 /\ res[e] = 200
    /\ p[d].pc = "done" /\ p[d].posted # <<>> /\ p[d].posted[1].kind = "success"
    /\ p[e].pc = "done" /\ p[e].posted # <<>> /\ p[e].posted[1].kind = "error"

---------------------------------------------------------------------------
(* Properties of the signature check *)

\* C12: verifyWebhookSignature never raises: for a request that carries a
\* signature header and a raw body it returns true or false, whatever the
\* header's length, so the delivery is never answered 500, and it is
\* answered 401 when the header is not the body's digest.
C12_VerifyNeverRaises ==
  (req.id # 0 /\ req.signature.present /\ req.hasRawBody)
     => /\ verifyWebhookSignature(build, req.body, req.signature) # "throw"
        /\ res[req.id] # 500
        /\ req.signature.hex # Hmac(req.body) => res[req.id] = 401

\* A hex string with its digits in lower case, as digest('hex') writes them.
LowerCased(s) == [i \in 1..Len(s) |-> Lower(s[i])]

\* C13: verifyWebhookSignature returns true exactly when the signature
\* string, with or without the prefix "sha256=", is the hex HMAC of the
\* payload (in either case of the hex digits); for every other string and
\* for the digest of another payload it returns false.
C13_VerifyExact ==
  verifyResult # "none"
    => verifyResult =
         (IF LowerCased(verifyInput.signature.hex) = Hmac(verifyInput.payload)
          THEN "true" ELSE "false")

---------------------------------------------------------------------------
(* Properties of repeated application *)

\* Delivery e repeats delivery d: the same PR of the same repository, the
\* same verdict with the same change list, after d's pipeline pushed its
\* branch and posted its success comment.
Repeats(d, e) ==
  /\ d < e
  /\ SucceededThroughout(p[d]) /\ p[d].pc = "done"
  /\ p[e].payload.number = p[d].payload.number
  /\ p[e].payload.repo = p[d].payload.repo
  /\ p[e].analysis = p[d].analysis

\* The git operation of a log entry can succeed on working copy w.
CouldSucceed(entry, rec, w) ==
  IF entry.op = "pull" THEN CanPull(w)
  ELSE IF entry.op = "checkout"
       THEN CanCheckout(w, remote[rec.payload.repo], BaseOf(rec.payload))
  ELSE IF entry.op = "checkoutLocalBranch"
       THEN CanCheckoutLocalBranch(w, IF entry.stage = "setupRepository"
                                      THEN BaseOf(rec.payload) ELSE rec.branchName)
  ELSE TRUE

\* The pipeline ended in a failure of its environment: a call of the
\* GitHub API failed, or a git or file operation failed that the state of
\* the working copy allowed to succeed.
EnvironmentFailure(rec) ==
  \/ rec.error.class = "AxiosError"
  \/ /\ rec.gitLog # <<>>
     /\ ~rec.gitLog[Len(rec.gitLog)].ok
     /\ rec.gitLog[Len(rec.gitLog)].op # "checkChanges"
     /\ CouldSucceed(rec.gitLog[Len(rec.gitLog)], rec, wc[rec.self])

\* The working copies holding a commit of delivery d, and the remotes a
\* commit of delivery d was pushed to.
CommitsBy(d) ==
  {path \in RepoPaths :
     \E b \in DOMAIN wc[path].branches : wc[path].branches[b].by = d}
PushedBy(d) ==
  {r \in Repos : \E b \in DOMAIN remote[r] : remote[r][b].by = d}

\* C14: when a delivery repeats one whose change was applied and pushed,
\* and nothing else touched the working copy, the second application ends
\* in the no-changes-to-commit error (unless its environment fails), with
\* no commit created and nothing pushed.
C14_SecondApplyNoChanges ==
  \A d \in Deliveries, e \in Deliveries :
    (/\ Repeats(d, e) /\ p[e].gitLog # <<>>
     /\ p[e].pc \in {"errorComment", "successComment", "done"}
     /\ ~EnvironmentFailure(p[e]))
      => /\ p[e].error = Err("Error", "No changes to commit")
         /\ CommitsBy(e) = {} /\ PushedBy(e) = {}

---------------------------------------------------------------------------
(* Properties of the fix branch's name *)

\* A text is the decimal form of a positive integer.
IsPositiveDecimal(s) ==
  /\ s # <<>>
  /\ \A i \in 1..Len(s) : \E k \in 1..10 : s[i] = DecimalDigits[k]
  /\ s[1] # "0"

\* A text has the form fix/pr-<positive integer>-<positive integer>.
IsFixBranchText(s) ==
  /\ Len(s) >= 4 /\ s[1] = "fix/pr-"
  /\ \E i \in 3..(Len(s) - 1) :
       /\ s[i] = "-"
       /\ IsPositiveDecimal(SubSeq(s, 2, i - 1))
       /\ IsPositiveDecimal(SubSeq(s, i + 1, Len(s)))

createFixBranchReturned == branchResult \notin {<<>>, BranchThrow}

\* C15: a name createFixBranch returns has the form
\* fix/pr-<positive integer>-<positive integer>, is built from the PR number
\* and the clock value of the call, and differs from the base branch's name,
\* also when the base branch has a name of that form.
C15_FixBranchNameForm ==
  createFixBranchReturned
    => /\ IsFixBranchText(branchResult)
       /\ branchResult = <<"fix/pr-">> \o Decimal(branchInput.prNumber)
                           \o <<"-">> \o Decimal(branchInput.clock)
       /\ branchResult # branchInput.baseBranch

\* createFixBranch returned a name for a base branch that is itself a fix
\* branch of the same PR, created at another clock value.
C15_Witness ==
  /\ createFixBranchReturned
  /\ IsFixBranchText(branchInput.baseBranch)
  /\ branchInput.baseBranch[2] = branchResult[2]
  /\ branchInput.baseBranch # branchResult

---------------------------------------------------------------------------
(* Properties of the dispatch on the event kind *)

\* C16: a delivery with GitHub's signature whose kind is ping or is not
\* recognized is answered 200 and no pipeline is scheduled or run for it;
\* a pipeline is scheduled only by the handler's step for a
\* pull_request_review_comment or issue_comment delivery, started only from
\* that scheduling, and never scheduled or started a second time.
C16_OnlyCommentEventsStartPipeline ==
  [][\A d \in Deliveries :
       /\ (res[d] = 0 /\ res'[d] # 0 /\ req'.event \notin CommentEvents
           /\ req'.hasRawBody /\ req'.signature = GitHubSignature(req'.body))
            => (res'[d] = 200 /\ NotInvoked(p'[d]))
       /\ (p'[d].pc = "scheduled" /\ p[d].pc # "scheduled")
            => /\ p[d].pc = "idle" /\ res[d] = 0 /\ res'[d] = 200
               /\ req'.id = d /\ req'.event \in CommentEvents
       /\ (PipelineStarted(p'[d]) /\ ~PipelineStarted(p[d]))
            => p[d].pc = "scheduled"
       /\ PipelineStarted(p[d]) => PipelineStarted(p'[d])
       /\ p[d].pc = "none" => p'[d] = p[d]]_vars

\* A delivery of an unrecognized kind, signed by GitHub, whose body names a
\* created comment on a PR was answered 200 with nothing scheduled, after a
\* first delivery started its pipeline.
C16_Witness ==
  /\ req.id = 2 /\ req.event = UnrecognizedEvent
  /\ req.signature = GitHubSignature(req.body)
  /\ handleCommentEvent(req.body)
  /\ res[2] = 200 /\ NotInvoked(p[2])
  /\ PipelineStarted(p[1])

---------------------------------------------------------------------------
(* Properties of the error handling of the analysis phase *)

\* The pipeline is in the analysis phase (CommentProcessor.analyzeComment).
AnalysisPcs == {"getFiles", "getContent", "model"}

\* C17: the analysis phase always ends with a verdict: a pipeline that left
\* the phase holds one, an error of the phase (file list, file contents,
\* model call, parsing) gives a verdict with shouldApply = false, and the
\* first comment the pipeline issues after such an error is the analysis
\* comment, never the error comment.
C17_AnalysisErrorsBecomeVerdict ==
  \A d \in Deliveries :
    /\ (PipelineStarted(p[d]) /\ p[d].pc \notin AnalysisPcs \cup {"skipped"})
         => p[d].analysis # NoVerdict
    /\ p[d].analysis.reasoning.src \in {"api", "parse"} => ~p[d].analysis.shouldApply
    /\ (p[d].gitLog = <<>> /\ p[d].calls # <<>>) => p[d].calls[1].kind = "analysis"

---------------------------------------------------------------------------
(* Properties of the promise of processComment *)

\* The promise of processComment was rejected.
Rejected(rec) == rec.pc = "rejected"

\* The control points of a pipeline in the order processComment passes
\* them; the position of a control point in the sequence.
PcOrder ==
  <<"idle", "scheduled", "getFiles", "getContent", "model",
    "clone", "setupPull", "configName", "configEmail", "setupCheckout",
    "setupCreate", "fixCheckout", "fixPull", "fixCreate", "add", "status",
    "commit", "push", "summary", "analysisComment", "successComment",
    "errorComment", "none", "skipped", "done", "rejected">>
PcRank(pc) == CHOOSE i \in 1..Len(PcOrder) : PcOrder[i] = pc

\* How far a pipeline has come: its control point, and within the loop
\* over the PR files the number of files fetched.
Progress(rec) == <<PcRank(rec.pc), Len(rec.contents)>>
Further(a, b) == a[1] > b[1] \/ (a[1] = b[1] /\ a[2] > b[2])

\* C18: the promise of processComment is never rejected: an error raised
\* in the pipeline is held by handleError, whose createComment call is the
\* pipeline's last call; a pipeline that started and has not ended always
\* has a continuation to run once its awaited call returned or failed; and
\* every step takes the pipeline further towards its end, so that it ends
\* whatever calls of the GitHub API, the model and git fail.
C18_ProcessCommentNeverRejects ==
  /\ [](\A d \in Deliveries :
          /\ ~Rejected(p[d])
          /\ p[d].error # NoError
               => /\ p[d].pc \in {"errorComment", "done"}
                  /\ p[d].calls # <<>>
                  /\ p[d].calls[Len(p[d].calls)] = ErrorComment(p[d].error)
          /\ (p[d].pc = "scheduled" \/ (PipelineStarted(p[d]) /\ ~PipelineEnded(p[d])))
               => ENABLED PipelineStep(d))
  /\ [][\A d \in Deliveries :
          p'[d] # p[d] => Further(Progress(p'[d]), Progress(p[d]))]_vars

\* A pipeline ended after its push failed and the call posting the error
\* comment failed too.
C18_Witness ==
  \E d \in Deliveries :
    /\ p[d].pc = "done" /\ p[d].posted = <<>>
    /\ p[d].error = Err("GitError", "push")
    /\ p[d].calls = <<ErrorComment(Err("GitError", "push"))>>

---------------------------------------------------------------------------
(* Properties of pipelines running at once *)

\* Two different deliveries for the same repository.
SameRepository(d, e) == d # e /\ p[d].payload.repo = p[e].payload.repo

\* C19: nothing serializes two pipelines of the same repository: while one
\* is inside the apply stage the other is free to enter it and to run each
\* of its steps, and both work in the same working-copy directory.
C19_NothingSerializes ==
  \A d \in Deliveries, e \in Deliveries :
    (SameRepository(d, e) /\ p[e].pc \in ApplyPcs)
      => /\ p[d].pc = "model" => ENABLED ModelReturn(d)
         /\ p[d].pc \in ApplyPcs
              => /\ p[d].self = p[e].self
                 /\ ENABLED PipelineStep(d)

\* An interleaving of the checkout, write and commit steps of two pipelines
\* of the same repository: the one commit in the working copy was created
\* by pipeline d, and it is the tip of the fix branch pipeline e created
\* and of no other branch: d's commit was made on e's branch.
C19_Witness ==
  \E d \in Deliveries, e \in Deliveries :
    /\ SameRepository(d, e)
    /\ p[d].fixBranch # NoBranch /\ p[e].fixBranch # NoBranch
    /\ p[e].fixBranch # p[d].fixBranch
    /\ p[d].pc = "push"
    /\ LET w == wc[p[e].self]
       IN /\ w.head = p[e].fixBranch
          /\ w.branches[p[e].fixBranch].by = d
          /\ \A b \in DOMAIN w.branches \ {p[e].fixBranch} : w.branches[b].by = 0

\* The working-copy directory of a pipeline's own repository.
OwnPath(rec) == RepoPath(rec.payload.repo)

\* C20: every git operation of a pipeline is run in the working copy of the
\* pipeline's own repository: the GitService it calls holds that path, its
\* commits are in that working copy only and its pushes go to that
\* repository only, whatever a pipeline of another repository does
\* meanwhile.
C20_OwnWorkingCopyOnly ==
  \A d \in Deliveries :
    /\ p[d].pc \in ApplyPcs => p[d].self = OwnPath(p[d])
    /\ CommitsBy(d) \subseteq {OwnPath(p[d])}
    /\ PushedBy(d) \subseteq {p[d].payload.repo}

---------------------------------------------------------------------------
(* Properties of GitService.setupRepository *)

\* C21: setupRepository issues git clone when the working-copy directory
\* is absent and git pull otherwise; once that call succeeded it sets the
\* author name, then the email, then checks out the base branch, and issues
\* git checkout -b for it when the checkout failed; the cloned directory
\* exists, and when setupRepository returns (createFixBranch is called) the
\* working copy it ran in is on the base branch.
C21_SetupRepositorySteps ==
  [][\A d \in Deliveries :
       p'[d] # p[d] =>
         LET own == RepoPath(p[d].payload.repo)
             base == BaseOf(p[d].payload)
             ok == p'[d].error = NoError
         IN /\ p'[d].pc \in {"clone", "setupPull"}
                 => /\ p[d].pc = "model" /\ p'[d].self = own
                    /\ p'[d].pc = "clone" <=> ~wc[own].exists
            /\ (p[d].pc \in {"clone", "setupPull"} /\ ok)
                 => /\ p'[d].pc = "configName"
                    /\ wc'[p[d].self].exists
                    /\ p[d].pc = "clone"
                         => (~wc[p[d].self].exists /\ wc'[p[d].self].head = MainBranch)
            /\ p'[d].pc = "configName" => p[d].pc \in {"clone", "setupPull"}
            /\ (p[d].pc = "configName" /\ ok) => p'[d].pc = "configEmail"
            /\ p'[d].pc = "configEmail" => p[d].pc = "configName"
            /\ (p[d].pc = "configEmail" /\ ok) => p'[d].pc = "setupCheckout"
            /\ p'[d].pc = "setupCheckout" => p[d].pc = "configEmail"
            /\ p[d].pc = "setupCheckout"
                 => /\ ok /\ p'[d].pc \in {"fixCheckout", "setupCreate"}
                    /\ p'[d].pc = "setupCreate" => wc' = wc
            /\ p'[d].pc = "setupCreate" => p[d].pc = "setupCheckout"
            /\ (p[d].pc = "setupCreate" /\ ok)
                 => /\ p'[d].pc = "fixCheckout"
                    /\ base \notin DOMAIN wc[p[d].self].branches
            /\ p'[d].pc = "fixCheckout"
                 => /\ p[d].pc \in {"setupCheckout", "setupCreate"}
                    /\ wc'[p[d].self].exists
                    /\ wc'[p[d].self].head = base
                    /\ base \in DOMAIN wc'[p[d].self].branches]_vars

\* setupRepository of a second pipeline returned in the working copy the
\* first one cloned: it pulled, set name and email, failed to check out
\* develop and created it locally.
C21_Witness ==
  \E d \in Deliveries :
    /\ p[d].pc = "fixCheckout"
    /\ Len(p[d].gitLog) = 6
    /\ p[d].gitLog[2] = [stage |-> "setupRepository", op |-> "pull", ok |-> TRUE]
    /\ p[d].gitLog[3].op = "addConfig" /\ p[d].gitLog[4].op = "addConfig"
    /\ p[d].gitLog[5] = [stage |-> "setupRepository", op |-> "checkout", ok |-> FALSE]
    /\ p[d].gitLog[6] =
         [stage |-> "setupRepository", op |-> "checkoutLocalBranch", ok |-> TRUE]
    /\ wc[p[d].self].head = DevBranch

---------------------------------------------------------------------------
(* Properties of GitService.createFixBranch *)

\* createFixBranch of pipeline d returns in this step: its git checkout -b
\* succeeded.
FixBranchCreated(d) ==
  p[d].pc = "fixCreate" /\ p'[d].fixBranch # NoBranch

\* C22: createFixBranch checks out the base branch, pulls, and only then
\* creates the fix branch; when it returns, the fix branch was created from
\* the checked-out base branch, its parent is the tip of the base branch on
\* the remote, and no commit of a pipeline is in its history.
C22_BranchesFromPulledBase ==
  [][\A d \in Deliveries :
       /\ p'[d].pc = "fixPull" /\ p[d].pc # "fixPull" => p[d].pc = "fixCheckout"
       /\ p'[d].pc = "fixCreate" /\ p[d].pc # "fixCreate" => p[d].pc = "fixPull"
       /\ FixBranchCreated(d)
            => LET w == wc[p[d].self]
                   base == BaseOf(p[d].payload)
                   parent == wc'[p[d].self].branches[p[d].branchName]
               IN /\ w.head = base
                  /\ parent = remote[RepoOfPath(p[d].self)][base]
                  /\ parent.by = 0]_vars

---------------------------------------------------------------------------
(* GitService.applyChanges on its own *)

\* Largest number of entries of a change list.
MaxChanges == 2

\* The directory of the working copy itself, as path.dirname names it
\* relative to repoPath.
RootDir == "."
\* The paths below repoPath: a file at the top, a directory, a file in it.
DiskNodes == {"a.ts", "src", "src/b.ts"}
\* What a path holds: nothing, a directory, or a file with its content.
DiskValues == {"absent", "dir"} \cup Contents

\* The filenames a change can carry; "./a.ts" is another spelling of "a.ts".
ChangeNames == {"a.ts", "./a.ts", "src/b.ts", "src"}
\* path.join(this.repoPath, change.filename), relative to repoPath: the
\* join normalizes the path.
PathJoin(filename) == IF filename = "./a.ts" THEN "a.ts" ELSE filename
\* path.dirname(filePath).
Dirname(filePath) == IF filePath = "src/b.ts" THEN "src" ELSE RootDir

\* The disks applyChanges can find: an entry exists only in a directory.
Disks ==
  {disk \in [DiskNodes -> DiskValues] :
     disk["src/b.ts"] # "absent" => disk["src"] = "dir"}

\* The change lists of at most n entries.
RECURSIVE ChangeLists(_)
ChangeLists(n) ==
  IF n = 0 THEN {<<>>}
  ELSE LET shorter == ChangeLists(n - 1)
       IN shorter \cup
          {Append(l, [filename |-> f, content |-> c]) :
             l \in {x \in shorter : Len(x) = n - 1},
             f \in ChangeNames, c \in Contents}

\* The loop body without the mkdirSync of a missing directory.
writeChangeNoMkdir(disk, change) ==
  LET filePath == PathJoin(change.filename)
      dir == Dirname(filePath)
  IN IF disk[filePath] = "dir" \/ (dir # RootDir /\ disk[dir] # "dir")
     THEN [disk |-> disk, ok |-> FALSE]
     ELSE [disk |-> [disk EXCEPT ![filePath] = change.content], ok |-> TRUE]

\* The loop body of applyChanges, lines 73-83: mkdirSync when the directory
\* does not exist, then writeFileSync, which throws when the path is a
\* directory (EISDIR) or its parent is a file (ENOTDIR).
writeChange(disk, change) ==
  LET filePath == PathJoin(change.filename)
      dir == Dirname(filePath)
      made == IF dir # RootDir /\ disk[dir] = "absent"
              THEN [disk EXCEPT ![dir] = "dir"] ELSE disk
  IN IF made[filePath] = "dir" \/ (dir # RootDir /\ made[dir] # "dir")
     THEN [disk |-> made, ok |-> FALSE]
     ELSE [disk |-> [made EXCEPT ![filePath] = change.content], ok |-> TRUE]

\* GitService.applyChanges, lines 71-85, when no file-system call fails
\* for an outside reason: the entries in order, up to the first throw.
RECURSIVE applyChanges(_, _)
applyChanges(disk, changes) ==
  IF changes = <<>> THEN [disk |-> disk, ok |-> TRUE]
  ELSE LET r == writeChange(disk, Head(changes))
       IN IF r.ok THEN applyChanges(r.disk, Tail(changes)) ELSE r

InitApplyChanges ==
  /\ InitServer
  /\ aiResponse = ApiEmpty
  /\ aiResult = NoVerdict
  /\ verifyInput = NoVerifyInput
  /\ verifyResult = "none"
  /\ branchInput = NoBranchInput
  /\ branchResult = <<>>
  /\ applyInput \in [disk : Disks, changes : ChangeLists(MaxChanges)]
  /\ applyResult = NoResult
  /\ commitInput = NoCommitInput
  /\ commitResult = NoResult

\* applyChanges returns or throws.
ApplyChangesReturn ==
  /\ ~applyResult.returned
  /\ LET r == applyChanges(applyInput.disk, applyInput.changes)
     IN applyResult' = [ok |-> r.ok, returned |-> TRUE, disk |-> r.disk]
  /\ UNCHANGED <<config, build, now, req, res, p, gitService, wc, remote,
                 aiResponse, aiResult, verifyInput, verifyResult,
                 branchInput, branchResult, applyInput, commitInput, commitResult>>

NextApplyChanges == ApplyChangesReturn

SpecApplyChanges == InitApplyChanges /\ [][NextApplyChanges]_vars

\* The paths the change list names, and the content the last entry naming
\* a path carries.
NamedPaths(changes) == {PathJoin(changes[i].filename) : i \in 1..Len(changes)}
LastContent(changes, x) ==
  LET named == {i \in 1..Len(changes) : PathJoin(changes[i].filename) = x}
  IN changes[CHOOSE i \in named : \A k \in named : i >= k].content

\* C23: when applyChanges returns, every file the change list names holds
\* exactly the content of the last entry naming it, whatever it held before,
\* and its directory exists; applyChanges throws only when a named path is
\* a directory or lies under a file; and whether it returns or throws, a
\* path the list does not name is unchanged, but for a missing directory of
\* a named file, which is created.
C23_ApplyChangesOverwrites ==
  applyResult.returned
    => LET changes == applyInput.changes
           before == applyInput.disk
           after == applyResult.disk
           named == NamedPaths(changes)
           parents == {Dirname(x) : x \in named} \ {RootDir}
       IN /\ applyResult.ok
               => \A x \in named :
                    /\ after[x] = LastContent(changes, x)
                    /\ Dirname(x) # RootDir => after[Dirname(x)] = "dir"
          /\ ~applyResult.ok
               => \E x \in named :
                    \/ before[x] = "dir" \/ x \in parents
                    \/ Dirname(x) # RootDir
                         /\ (before[Dirname(x)] \in Contents \/ Dirname(x) \in named)
          /\ \A x \in DiskNodes \ named :
               \/ after[x] = before[x]
               \/ x \in parents /\ before[x] = "absent" /\ after[x] = "dir"

\* applyChanges returned for two entries naming src/b.ts with different
\* contents where src did not exist: the directory was made, the file holds
\* the second content, and a.ts is as it was.
C23_Witness ==
  /\ applyResult.returned /\ applyResult.ok
  /\ Len(applyInput.changes) = 2
  /\ applyInput.changes[1].filename = "src/b.ts"
  /\ applyInput.changes[2].filename = "src/b.ts"
  /\ applyInput.changes[1].content # applyInput.changes[2].content
  /\ applyInput.disk["src"] = "absent" /\ applyInput.disk["a.ts"] = "v0"
  /\ applyResult.disk["src"] = "dir"
  /\ applyResult.disk["src/b.ts"] = applyInput.changes[2].content
  /\ applyResult.disk["a.ts"] = "v0"

---------------------------------------------------------------------------
(* GitService.commitChanges on its own *)

\* The change lists of at most n entries naming files at the top of the
\* working copy.
RECURSIVE TopLevelChangeLists(_)
TopLevelChangeLists(n) ==
  IF n = 0 THEN {<<>>}
  ELSE LET shorter == TopLevelChangeLists(n - 1)
       IN shorter \cup
          {Append(l, [filename |-> f, content |-> c]) :
             l \in {x \in shorter : Len(x) = n - 1},
             f \in Files, c \in Contents}

\* The working copy an earlier invocation left: a clone in which it wrote
\* the files of its change list and, when it got that far, staged them,
\* and in which it made no commit (a later call of it failed, or it is
\* suspended at an await).
WorkingCopyLeft(earlier, staged) ==
  LET cloned == GitClone(NoWorkingCopy, RemoteInit)
      written == FsWrite(cloned, earlier, Len(earlier))
  IN IF staged THEN GitAdd(written, ChangedFiles(earlier)) ELSE written

\* commitChanges, lines 90-119, on working copy w when every git call
\* succeeds: git add of the filenames, git status, the no-changes error
\* when status.modified and status.created are empty, git commit otherwise.
commitChanges(w, changes, d) ==
  LET added == GitAdd(w, ChangedFiles(changes))
  IN IF StatusModified(added) = {} /\ StatusCreated(added) = {}
     THEN [w |-> added, outcome |-> "No changes to commit"]
     ELSE [w |-> GitCommit(added, d), outcome |-> "committed"]

InitCommitChanges ==
  /\ InitServer
  /\ aiResponse = ApiEmpty
  /\ aiResult = NoVerdict
  /\ verifyInput = NoVerifyInput
  /\ verifyResult = "none"
  /\ branchInput = NoBranchInput
  /\ branchResult = <<>>
  /\ applyInput = NoApplyInput
  /\ applyResult = NoResult
  /\ commitInput \in [earlier : TopLevelChangeLists(MaxChanges), staged : BOOLEAN,
                      changes : TopLevelChangeLists(MaxChanges)]
  /\ commitResult = NoResult

\* GitService.applyChanges wrote the files of the change list and
\* commitChanges returns or throws.
CommitChangesReturn ==
  /\ ~commitResult.returned
  /\ LET left == WorkingCopyLeft(commitInput.earlier, commitInput.staged)
         applied == FsWrite(left, commitInput.changes, Len(commitInput.changes))
         r == commitChanges(applied, commitInput.changes, 1)
     IN commitResult' = [ok |-> r.outcome = "committed", returned |-> TRUE,
                         outcome |-> r.outcome, w |-> r.w]
  /\ UNCHANGED <<config, build, now, req, res, p, gitService, wc, remote,
                 aiResponse, aiResult, verifyInput, verifyResult,
                 branchInput, branchResult, applyInput, applyResult, commitInput>>

NextCommitChanges == CommitChangesReturn

SpecCommitChanges == InitCommitChanges /\ [][NextCommitChanges]_vars

\* C24: commitChanges stages the files of the change set and no other; it
\* throws the no-changes error exactly when writing the change set altered
\* no file, and then creates no commit; and a commit it creates differs
\* from its parent in files of the change set only, whatever an earlier
\* invocation left modified or staged in the working copy.
C24_CommitsChangeSetOnly ==
  commitResult.returned
    => LET changes == commitInput.changes
           files == ChangedFiles(changes)
           left == WorkingCopyLeft(commitInput.earlier, commitInput.staged)
           applied == FsWrite(left, changes, Len(changes))
           after == commitResult.w
           altered == \E f \in files : applied.work[f] # left.work[f]
       IN /\ \A f \in Files :
               after.index[f] = IF f \in files THEN applied.work[f] ELSE left.index[f]
          /\ commitResult.outcome = "No changes to commit" <=> ~altered
          /\ ~altered => Tip(after) = Tip(left)
          /\ \A f \in Files :
               Tip(after).tree[f] # Tip(left).tree[f] => f \in files

---------------------------------------------------------------------------
(* Properties of a failed push *)

\* The pipeline's push failed.
PushFailed(rec) == rec.error = Err("GitError", "push")

\* C25: when the push of a pipeline fails after its commit, the step
\* changes neither the working copy nor the remote, and no later step of
\* the pipeline does: the fix branch stays in the working copy and is not
\* on the remote; the one comment the pipeline issues is the error comment
\* of the push, which is on the PR once its call succeeded.
C25_PushFailureNotRolledBack ==
  /\ [](\A d \in Deliveries :
          PushFailed(p[d])
            => LET log == p[d].gitLog
               IN /\ log[Len(log)] = [stage |-> "pushChanges", op |-> "push", ok |-> FALSE]
                  /\ log[Len(log) - 1] = [stage |-> "commitChanges", op |-> "commit", ok |-> TRUE]
                  /\ p[d].fixBranch \in DOMAIN wc[p[d].self].branches
                  /\ p[d].fixBranch \notin DOMAIN remote[RepoOfPath(p[d].self)]
                  /\ p[d].pc \in {"errorComment", "done"}
                  /\ p[d].calls = <<ErrorComment(p[d].error)>>
                  /\ p[d].posted \in {<<>>, p[d].calls}
                  /\ p[d].pc = "errorComment" => ENABLED ErrorCommentReturn(d))
  /\ [][\A d \in Deliveries :
          /\ (p[d].pc = "push" /\ p'[d].error # NoError)
               => (PushFailed(p'[d]) /\ wc' = wc /\ remote' = remote)
          /\ (PushFailed(p[d]) /\ p'[d] # p[d])
               => (wc' = wc /\ remote' = remote /\ p'[d].pc = "done")]_vars

\* A pipeline ended after its push failed: the error comment is posted, the
\* working copy is still on the fix branch, whose tip is the pipeline's
\* commit, and the remote has no such branch.
C25_Witness ==
  \E d \in Deliveries :
    /\ PushFailed(p[d]) /\ p[d].pc = "done"
    /\ p[d].posted = <<ErrorComment(Err("GitError", "push"))>>
    /\ wc[p[d].self].head = p[d].fixBranch
    /\ wc[p[d].self].branches[p[d].fixBranch].by = d
    /\ p[d].fixBranch \notin DOMAIN remote[RepoOfPath(p[d].self)]

---------------------------------------------------------------------------
(* Properties of the loop over the PR files *)

\* The text analyzeComment stores for a file whose content it could not
\* fetch.
Placeholder == "File content not available"

\* C26: a failed getFileContent call stores the placeholder for its file
\* and the loop goes on with the next file: no error is raised, the entries
\* stored before are kept, and the model is called once, when an entry is
\* stored for every file of the PR file list, and never a second time.
C26_PlaceholderAndContinue ==
  /\ [](\A d \in Deliveries :
          /\ p[d].analyzeCalls <= 1
          /\ p[d].pc = "getContent"
               => /\ p[d].analyzeCalls = 0 /\ p[d].error = NoError
                  /\ Len(p[d].contents) < Len(p[d].files)
          /\ p[d].pc = "model"
               => /\ p[d].analyzeCalls = 1
                  /\ Len(p[d].contents) = Len(p[d].files)
                  /\ \A i \in 1..Len(p[d].contents) :
                       p[d].contents[i] \in {"content", Placeholder})
  /\ [][\A d \in Deliveries :
          (p[d].pc = "getContent" /\ p'[d] # p[d])
            => /\ p'[d].error = NoError /\ p'[d].calls = <<>>
               /\ p'[d].files = p[d].files
               /\ Len(p'[d].contents) = Len(p[d].contents) + 1
               /\ SubSeq(p'[d].contents, 1, Len(p[d].contents)) = p[d].contents
               /\ p'[d].pc = IF Len(p'[d].contents) = Len(p[d].files)
                             THEN "model" ELSE "getContent"]_vars

\* The model is being called for a PR of two files: the content of the
\* first could not be fetched, the content of the second was fetched after
\* that failure.
C26_Witness ==
  \E d \in Deliveries :
    /\ p[d].pc = "model" /\ p[d].analyzeCalls = 1
    /\ p[d].files = <<"a.ts", "b.ts">>
    /\ p[d].contents = <<Placeholder, "content">>

---------------------------------------------------------------------------
(* Properties of the extraction of the reply's JSON object *)

\* The verdict a reply object in the response format stands for.
VerdictOf(o) ==
  Verdict(o.shouldApply.s = "true",
          [i \in 1..Len(o.changes.items) |-> CodeChange(o.changes.items[i])],
          "reply", o.reasoning.s, o.confidence.n)

\* The pieces of a reply text that are serialized JSON objects.
JsonPieces(text) == {i \in 1..Len(text) : text[i].k = "json"}

\* C27: for a reply whose first JSON object is a verdict object in the
\* response format, whatever prose surrounds it (prose holding a brace, a
\* second object after it), analyzeComment returns the verdict of that
\* first object.
C27_FirstObjectParsed ==
  (Returned /\ aiResponse.kind = "reply" /\ JsonPieces(aiResponse.text) # {})
    => LET first == CHOOSE i \in JsonPieces(aiResponse.text) :
                      \A k \in JsonPieces(aiResponse.text) : i <= k
           o == aiResponse.text[first].o
       IN WellFormedObject(o) => aiResult = VerdictOf(o)

---------------------------------------------------------------------------
(* Properties of the verdicts analyzeComment returns *)

\* C28: a verdict analyzeComment returns has a boolean shouldApply, a
\* confidence in [0,1] and a reasoning text; it is either the safe default
\* of a failure, or the verdict of a reply object in which shouldApply is a
\* boolean, confidence a number in [0,1], reasoning a string and every
\* entry of changes an object with string filename, content and
\* description, whose values it carries; shouldApply = true is returned
\* only in the second case.
C28_VerdictWellTyped ==
  Returned
    => /\ aiResult.shouldApply \in BOOLEAN
       /\ aiResult.confidence \in 0..100
       /\ aiResult.reasoning.src \in {"reply", "parse", "api"}
       /\ aiResult.reasoning.src # "reply" => SafeDefault(aiResult)
       /\ aiResult.reasoning.src = "reply"
            => /\ aiResponse.kind = "reply"
               /\ \E i \in JsonPieces(aiResponse.text) :
                    /\ WellFormedObject(aiResponse.text[i].o)
                    /\ aiResult = VerdictOf(aiResponse.text[i].o)
       /\ aiResult.shouldApply => aiResult.reasoning.src = "reply"
       /\ \A k \in 1..Len(aiResult.changes) :
            /\ aiResult.changes[k].filename \in Files
            /\ aiResult.changes[k].content \in Contents
            /\ aiResult.changes[k].description = "fix"

\* analyzeComment returned a verdict with shouldApply = true, confidence 1
\* and two changes for a reply wrapped in prose.
C28_Witness ==
  /\ Returned /\ aiResult.shouldApply /\ aiResult.confidence = 100
  /\ Len(aiResult.changes) = 2
  /\ aiResponse.kind = "reply" /\ Len(aiResponse.text) = 3
  /\ aiResult.changes[2].filename = "b.ts"

---------------------------------------------------------------------------
(* Properties of the summary of the success comment *)

\* C29: generateChangeSummary returns the model's text, and the fixed
\* sentence when the call throws or returns no text; it throws nothing, so
\* after a successful push the return of the summary call always issues the
\* success comment, naming the fix branch and carrying one of those texts,
\* and never the error comment.
C29_SummaryNeverRaises ==
  /\ [](/\ \A out \in SummaryOutcomes :
             generateChangeSummary(out) =
               IF out.kind = "reply" THEN out.text ELSE FixedSummary
        /\ \A d \in Deliveries :
             p[d].pc = "summary"
               => /\ ENABLED SummaryReturn(d)
                  /\ p[d].gitLog[Len(p[d].gitLog)] =
                       [stage |-> "pushChanges", op |-> "push", ok |-> TRUE]
                  /\ p[d].calls = <<>>)
  /\ [][\A d \in Deliveries :
          (p[d].pc = "summary" /\ p'[d] # p[d])
            => /\ p'[d].error = NoError
               /\ p'[d].pc = "successComment"
               /\ \E text \in Summaries :
                    p'[d].calls = <<SuccessComment(p[d].analysis, p[d].fixBranch, text)>>]_vars

\* A pipeline ended with its success comment posted, carrying the fixed
\* sentence in place of the summary.
C29_Witness ==
  \E d \in Deliveries :
    /\ p[d].pc = "done"
    /\ p[d].posted = <<SuccessComment(p[d].analysis, p[d].fixBranch, FixedSummary)>>
    /\ p[d].fixBranch \in DOMAIN remote[p[d].payload.repo]

---------------------------------------------------------------------------
(* Properties of failed external calls *)

\* An external call of pipeline d, other than the createComment call of
\* its reporting step, returns with a failure in this step: a git or file
\* operation, the file list, a file's content, the model call, or the
\* createComment call of the success or analysis comment.
FailedCall(d) ==
  \/ /\ Len(p'[d].gitLog) > Len(p[d].gitLog)
     /\ ~p'[d].gitLog[Len(p'[d].gitLog)].ok
     /\ p'[d].gitLog[Len(p'[d].gitLog)].op # "checkChanges"
  \/ p[d].pc = "getFiles" /\ p'[d].error # NoError
  \/ /\ p[d].pc = "getContent" /\ p'[d] # p[d]
     /\ p'[d].contents[Len(p'[d].contents)] = Placeholder
  \/ p[d].pc = "model" /\ p'[d].modelOutcome \in {"throw", "empty"}
  \/ p[d].pc \in {"analysisComment", "successComment"} /\ p'[d].error # NoError

\* The pipeline issued a createComment call that reports: the error comment
\* of handleError, or the analysis comment of a verdict.
AtReportingStep(rec) == rec.pc \in {"errorComment", "analysisComment"}

\* No call of the pipeline was issued a second time: one model call for the
\* analysis, one content request per file, no operation in the log again
\* after it failed, and a second createComment call only as the error
\* comment for the failure of the first.
NoCallRepeated(rec) ==
  /\ rec.analyzeCalls <= 1
  /\ Len(rec.contents) <= Len(rec.files)
  /\ \A i \in 1..Len(rec.gitLog), j \in 1..Len(rec.gitLog) :
       (i < j /\ ~rec.gitLog[i].ok) => rec.gitLog[j] # rec.gitLog[i]
                                       /\ [rec.gitLog[j] EXCEPT !.ok = FALSE] # rec.gitLog[i]
  /\ \A i \in 1..Len(rec.gitLog), j \in 1..Len(rec.gitLog) :
       (i < j /\ rec.gitLog[i].stage = rec.gitLog[j].stage
              /\ rec.gitLog[i].op = rec.gitLog[j].op)
         => (rec.gitLog[i].op = "addConfig" /\ j = i + 1)
  /\ Len(rec.calls) <= 2
  /\ Len(rec.calls) = 2
       => /\ rec.calls[1].kind # "error"
          /\ rec.calls[2] = ErrorComment(Err("AxiosError", "createComment"))

\* C30 as stated: no call is issued a second time, and every failed call
\* takes the pipeline to its reporting step, whose own call ends the
\* pipeline.
C30_FailureAlwaysReported ==
  /\ [](\A d \in Deliveries : NoCallRepeated(p[d]))
  /\ [][\A d \in Deliveries :
          /\ p'[d] # p[d] => Further(Progress(p'[d]), Progress(p[d]))
          /\ FailedCall(d) => AtReportingStep(p'[d])
          /\ (p[d].pc = "errorComment" /\ p'[d] # p[d]) => p'[d].pc = "done"]_vars

\* C30: no call is issued a second time: every step takes the pipeline
\* to a later control point, and after a failed call the pipeline is at its
\* reporting step, but for the failures handled where they occur: a failed
\* content request stores the placeholder and the loop goes on, the failed
\* checkout of setupRepository is followed by git checkout -b; the
\* createComment call of handleError ends the pipeline, failed or not.
C30_NoRetry ==
  /\ [](\A d \in Deliveries : NoCallRepeated(p[d]))
  /\ [][\A d \in Deliveries :
          /\ p'[d] # p[d] => Further(Progress(p'[d]), Progress(p[d]))
          /\ FailedCall(d)
               => \/ AtReportingStep(p'[d])
                  \/ /\ p[d].pc = "getContent" /\ p'[d].pc \in {"getContent", "model"}
                     /\ Len(p'[d].contents) = Len(p[d].contents) + 1
                  \/ p[d].pc = "setupCheckout" /\ p'[d].pc = "setupCreate"
          /\ (p[d].pc = "errorComment" /\ p'[d] # p[d]) => p'[d].pc = "done"]_vars

\* A pipeline ended with no comment posted: the checkout of
\* setupRepository failed and the branch was created instead, the push
\* failed, and the error comment could not be posted.
C30_Witness ==
  \E d \in Deliveries :
    /\ p[d].pc = "done" /\ p[d].posted = <<>>
    /\ p[d].error = Err("GitError", "push")
    /\ \E i \in 1..Len(p[d].gitLog) :
         /\ p[d].gitLog[i] = [stage |-> "setupRepository", op |-> "checkout", ok |-> FALSE]
         /\ p[d].gitLog[i + 1] =
              [stage |-> "setupRepository", op |-> "checkoutLocalBranch", ok |-> TRUE]
    /\ p[d].analyzeCalls = 1
    /\ Len(p[d].calls) = 1

---------------------------------------------------------------------------
(* The states of an event *)

\* The server, deliveries arriving one after the other's pipeline ended,
\* with every awaited call returning or failing and every setImmediate
\* callback run: no continuation of a pipeline stays enabled for ever
\* without being run.
SpecSequentialLive ==
  SpecSequential /\ \A d \in Deliveries : WF_vars(PipelineStep(d))

\* The state of the event of delivery d.  The handler receives the request,
\* checks its signature and answers in one step: an event whose signature
\* check did not pass (401, or 500 when the check threw) is Rejected; one
\* the handler or processComment returned from early is Skipped; one whose
\* pipeline is scheduled or fetching is SignatureChecked; one whose verdict
\* declined is Analyzed while its comment is issued; one in applyChanges is
\* Applying; one whose reporting call returned is Reported.  While the error
\* comment is issued the event is in the state the error was raised in.
EventState(d) ==
  LET rec == p[d]
  IN CASE res[d] = 0 -> "NotReceived"
       [] res[d] \notin {0, 200} -> "Rejected"
       [] rec.pc \in {"none", "skipped"} -> "Skipped"
       [] rec.pc \in {"scheduled", "getFiles", "getContent", "model"} -> "SignatureChecked"
       [] rec.pc = "analysisComment" -> "Analyzed"
       [] rec.pc \in ApplyPcs \cup {"summary", "successComment"} -> "Applying"
       [] rec.pc = "errorComment" ->
            IF rec.analysis = NoVerdict THEN "SignatureChecked"
            ELSE IF rec.analysis.shouldApply THEN "Applying" ELSE "Analyzed"
       [] rec.pc = "done" -> "Reported"
       [] OTHER -> "Unknown"

\* The position of a state in Received, SignatureChecked, Analyzed,
\* (Skipped | Applying), Reported; Rejected leaves the sequence at Received.
StateRank(s) ==
  CASE s = "NotReceived" -> 0
    [] s = "SignatureChecked" -> 2
    [] s = "Analyzed" -> 3
    [] s \in {"Skipped", "Applying"} -> 4
    [] s = "Reported" -> 5
    [] s = "Rejected" -> 6
    [] OTHER -> 7

TerminalState(s) == s \in {"Rejected", "Skipped", "Reported"}

\* C31: an event moves through the states Received, SignatureChecked,
\* Analyzed, Skipped or Applying, Reported only forwards: no step takes it
\* to an earlier state, from Skipped to Applying or back, or out of a
\* terminal state, and only the handler's step rejects; and with every
\* awaited call returning or failing every scheduled pipeline reaches a
\* terminal state.
C31_ForwardsToTerminal ==
  /\ [][\A d \in Deliveries :
          LET s == EventState(d)
              t == EventState(d)'
          IN /\ t # "Unknown"
             /\ StateRank(t) >= StateRank(s)
             /\ (StateRank(t) = StateRank(s) /\ s # "NotReceived") => t = s
             /\ TerminalState(s) => (p'[d] = p[d] /\ res'[d] = res[d])
             /\ t = "Rejected" => s \in {"NotReceived", "Rejected"}]_vars
  /\ \A d \in Deliveries :
       (p[d].pc = "scheduled") ~> TerminalState(EventState(d))

\* An event reached Reported through Applying (its fix branch is pushed and
\* the success comment is on the PR) after an earlier event was skipped by
\* processComment.
C31_Witness ==
  \E d \in Deliveries, e \in Deliveries :
    /\ EventState(e) = "Skipped" /\ p[e].pc = "skipped"
    /\ EventState(d) = "Reported"
    /\ p[d].error = NoError /\ p[d].fixBranch # NoBranch
    /\ Len(p[d].posted) = 1

---------------------------------------------------------------------------
(* Properties relating the comment to the push *)

\* pushChanges of the pipeline returned without an error: its fix branch is
\* on the remote.
HasPushed(rec) ==
  \E k \in 1..Len(rec.gitLog) :
    rec.gitLog[k] = [stage |-> "pushChanges", op |-> "push", ok |-> TRUE]

\* C32: whenever a pipeline has pushed a fix branch the comment it posts is
\* the success comment naming that branch, and an error comment is posted
\* only by a pipeline that pushed no fix branch.
C32_ErrorCommentOnlyWithoutPush ==
  \A d \in Deliveries :
    \A k \in 1..Len(p[d].posted) :
      /\ HasPushed(p[d])
           => /\ p[d].posted[k].kind = "success"
              /\ p[d].posted[k].branch = p[d].fixBranch
      /\ p[d].posted[k].kind = "error" => ~HasPushed(p[d])

---------------------------------------------------------------------------
(* Properties of the working copy between invocations *)

\* createFixBranch of the pipeline returned: its fix branch exists.
PastCreateFixBranch(rec) == rec.fixBranch # NoBranch

\* The pipeline has not moved the HEAD of a working copy: none of its
\* checkouts succeeded.
NoCheckoutBy(rec) ==
  \A k \in 1..Len(rec.gitLog) :
    rec.gitLog[k].op \in {"checkout", "checkoutLocalBranch"} => ~rec.gitLog[k].ok

\* Files of the working copy differ from the tip of the checked-out branch.
Dirty(w) == w.exists /\ (w.work # Tip(w).tree \/ w.index # Tip(w).tree)

\* Pipeline d takes a step at one of the control points pcs, working in
\* the working copy at path.
StepAt(d, pcs, path) == p[d].pc \in pcs /\ p'[d] # p[d] /\ p[d].self = path

\* C33: no pipeline outcome returns the reused working copy to the base
\* branch or resets it.  Once createFixBranch returned, the working copy is
\* on the invocation's fix branch, and it is still there whatever the
\* outcome unless another invocation's checkout moved it; HEAD moves only
\* in the checkout steps of setupRepository and createFixBranch, never in a
\* later step or at an outcome, and local modifications disappear only by
\* being committed; and the git pull the next invocation's setupRepository
\* starts with is the invocation's first git operation and runs in the
\* working copy as it was left, before any checkout of the base branch.
C33_LeftOnFixBranch ==
  /\ [](\A d \in Deliveries :
          (/\ PastCreateFixBranch(p[d])
           /\ \A f \in Deliveries \ {d} : NoCheckoutBy(p[f]))
            => /\ wc[p[d].self].exists
               /\ wc[p[d].self].head = p[d].fixBranch)
  /\ [][/\ \A path \in RepoPaths :
            /\ wc'[path].head # wc[path].head
                 => \E d \in Deliveries :
                      StepAt(d, {"setupCheckout", "setupCreate",
                                 "fixCheckout", "fixCreate"}, path)
            /\ (Dirty(wc[path]) /\ ~Dirty(wc'[path]))
                 => \E d \in Deliveries : StepAt(d, {"commit"}, path)
        /\ \A d \in Deliveries :
            /\ (~PastCreateFixBranch(p[d]) /\ PastCreateFixBranch(p'[d]))
                 => wc'[p[d].self].head = p'[d].fixBranch
            /\ (p[d].pc = "setupPull" /\ p'[d] # p[d])
                 => /\ wc' = wc
                    /\ \A k \in 1..Len(p[d].gitLog) :
                         p[d].gitLog[k].stage = "newGitService"
                    /\ Len(p'[d].gitLog) = Len(p[d].gitLog) + 1
                    /\ p'[d].gitLog[Len(p'[d].gitLog)].op = "pull"]_vars

\* The second invocation's pull has run in the working copy the first one
\* left on its fix branch after pushing it: the working copy is still on
\* that branch.
C33_Witness ==
  \E d \in Deliveries, e \in Deliveries :
    /\ d # e /\ p[d].self = p[e].self
    /\ p[d].pc = "done" /\ HasPushed(p[d])
    /\ \E k \in 1..Len(p[e].gitLog) :
         p[e].gitLog[k].stage = "setupRepository" /\ p[e].gitLog[k].op = "pull"
    /\ wc[p[e].self].head = p[d].fixBranch

---------------------------------------------------------------------------
(* The working-copy directory of a repository *)

\* The length of the owner logins and repository names considered.
MaxNameLen == 3

\* repository.owner.login and repository.name are strings of the payload:
\* letters and hyphens, as GitHub issues them: no hyphen at either end and
\* no two in a row.
NameChars == {"o", "-"}
RepoNames ==
  { s \in UNION { [1..n -> NameChars] : n \in 1..MaxNameLen } :
      /\ s[1] # "-" /\ s[Len(s)] # "-"
      /\ \A i \in 1..(Len(s) - 1) : ~(s[i] = "-" /\ s[i + 1] = "-") }

\* The repository identities a delivery can carry.
RepoIdentities == [owner : RepoNames, name : RepoNames]

\* Pipelines whose verdict is about to be applied, for comments of any two
\* repositories.
InitRepoPath ==
  /\ config \in [userName : ConfigUserNames]
  /\ build \in Builds
  /\ now = 1
  /\ req = NoRequest
  /\ res = [d \in Deliveries |-> 200]
  /\ gitService = NoPath
  /\ wc = [path \in RepoPaths |-> NoWorkingCopy]
  /\ remote = [r \in Repos |-> RemoteInit]
  /\ aiResponse = ApiEmpty
  /\ aiResult = NoVerdict
  /\ verifyInput = NoVerifyInput
  /\ verifyResult = "none"
  /\ branchInput = NoBranchInput
  /\ branchResult = <<>>
  /\ applyInput = NoApplyInput
  /\ applyResult = NoResult
  /\ commitInput = NoCommitInput
  /\ commitResult = NoResult
  /\ p \in [Deliveries ->
              { [NoPipeline EXCEPT !.pc = "model",
                                   !.payload = [UserCommentBody EXCEPT !.repo = r]]
                  : r \in RepoIdentities }]

\* applyChanges, lines 115-116: the working-copy directory is named from
\* the repository of the payload and the GitService for it is stored in
\* the shared field.
NewGitService(d) ==
  /\ p[d].pc = "model"
  /\ p' = With(d, [p[d] EXCEPT !.self = RepoPath(p[d].payload.repo),
                               !.pc = "clone"])
  /\ gitService' = RepoPath(p[d].payload.repo)
  /\ UNCHANGED <<config, build, now, req, res, wc, remote, ai>>

NextRepoPath == \E d \in Deliveries : NewGitService(d)

SpecRepoPath == InitRepoPath /\ [][NextRepoPath]_vars

\* C34: distinct repository identities (owner, repo) map to distinct
\* working-copy directories and the same identity maps to the same
\* directory: two pipelines work in the same directory exactly when their
\* payloads name the same repository.
C34_DistinctDirectories ==
  \A d \in Deliveries, e \in Deliveries :
    (p[d].self # NoPath /\ p[e].self # NoPath)
      => (p[d].self = p[e].self <=> p[d].payload.repo = p[e].payload.repo)

---------------------------------------------------------------------------
(* Verdicts to apply with an empty change list *)

\* A reply that passes parseAIResponse with shouldApply true and no change
\* (lines 132-161: an empty array is an array, and map checks no entry).
ApplyNone == ReplyObject(Bool(TRUE), Num(100), Str("bug"), Arr(<<>>))

\* The model answering every comment with a verdict to apply: one with an
\* empty change list, or the one changing a.ts and b.ts.
ApplyOutcomes == {ApiReply(<<Json(ApplyNone)>>), ApiReply(<<Json(ApplyTwo)>>)}

\* app.post('/webhook') for a created comment of a user on PR 1, signed by
\* GitHub.
WebhookOfComment(d) ==
  /\ res[d] = 0
  /\ \A e \in Deliveries : e < d => res[e] # 0
  /\ LET r == Request(d, "pull_request_review_comment", TRUE,
                      GitHubSignature(UserCommentBody), UserCommentBody)
     IN /\ req' = r
        /\ res' = [res EXCEPT ![d] = WebhookStatus(build, r)]
        /\ p' = With(d, [p[d] EXCEPT
                    !.pc = IF WebhookSchedules(build, r)
                           THEN "scheduled" ELSE "none",
                    !.payload = IF WebhookSchedules(build, r)
                                THEN r.body ELSE OtherBody])
  /\ UNCHANGED <<config, build, now, gitService, wc, remote, ai>>

\* The server receiving created comments on PR 1 that the model answers
\* with verdicts to apply.
NextApplyOutcomes ==
  \E d \in Deliveries :
    \/ WebhookOfComment(d)
    \/ ProcessComment(d)
    \/ GetPullRequestFilesReturn(d)
    \/ GetFileContentReturn(d)
    \/ ModelReturnOf(d, ApplyOutcomes)
    \/ CloneReturn(d)
    \/ SetupPullReturn(d)
    \/ AddConfigReturn(d)
    \/ SetupCheckoutReturn(d)
    \/ SetupCreateReturn(d)
    \/ FixCheckoutReturn(d)
    \/ FixPullReturn(d)
    \/ FixCreateReturn(d)
    \/ AddReturn(d)
    \/ StatusReturn(d)
    \/ CommitReturn(d)
    \/ PushReturn(d)
    \/ SummaryReturn(d)
    \/ CommentReturn(d)
    \/ ErrorCommentReturn(d)

SpecApplyOutcomes == Init /\ [][NextApplyOutcomes]_vars

\* The verdict of the pipeline is to apply an empty change list.
AppliesNothing(rec) ==
  rec.analysis # NoVerdict /\ rec.analysis.shouldApply /\ rec.analysis.changes = <<>>

\* The pipeline cloned the repository: its working copy was clean when
\* its apply stage started.
StartedClean(rec) ==
  \E k \in 1..Len(rec.gitLog) :
    rec.gitLog[k] = [stage |-> "setupRepository", op |-> "clone", ok |-> TRUE]

\* git status of commitChanges returned to the pipeline: every call before
\* the no-changes check succeeded.
StatusReturned(rec) ==
  \E k \in 1..Len(rec.gitLog) :
    rec.gitLog[k] = [stage |-> "commitChanges", op |-> "status", ok |-> TRUE]

\* C35: a verdict with shouldApply = true and an empty change list never
\* leads to a commit, a pushed branch or a success comment: a pipeline that
\* started from a clean working copy issues no git commit, pushes nothing
\* and issues no success comment; it ends in an error reported by the
\* error comment, and when its calls succeeded up to the check of
\* commitChanges that error is the no-changes error.
C35_EmptyChangeListFailsAtCommit ==
  \A d \in Deliveries :
    (AppliesNothing(p[d]) /\ StartedClean(p[d]))
      => /\ \A k \in 1..Len(p[d].gitLog) :
              p[d].gitLog[k].op \notin {"commit", "push"}
         /\ CommitsBy(d) = {}
         /\ \A k \in 1..Len(p[d].calls) : p[d].calls[k].kind # "success"
         /\ p[d].pc \in {"errorComment", "done"}
              => /\ p[d].error # NoError
                 /\ p[d].calls = <<ErrorComment(p[d].error)>>
         /\ StatusReturned(p[d])
              => /\ p[d].pc \in {"errorComment", "done"}
                 /\ p[d].error = Err("Error", "No changes to commit")

=============================================================================
